---- MODULE Spec2Model ----
(***************************************************************************)
(* soundhaven-server: the OAuth authorization-code flow, the refresh-token *)
(* lifecycle and logout of src/src/index.ts, as seen by one user agent     *)
(* (its cookie jar), the stateless request handlers, and the upstream      *)
(* token endpoint.  The async handlers (callback, refresh) are split at    *)
(* their single await of the token endpoint, so requests may overlap.      *)
(* The playlist and discovery endpoints follow, with the store tables of   *)
(* prisma/schema.prisma and the upstream playlists they work on; their     *)
(* handlers are split at the awaits of the store and of the upstream.      *)
(* Time is a clock of ticks grouped in UTC days; the daily cards, the seed *)
(* of the Card table and the discovery of today are modelled over it.      *)
(***************************************************************************)
EXTENDS Integers, Sequences, FiniteSets, Bags, TLC

(***************************************************************************)
(* Bounds of the model.                                                    *)
(***************************************************************************)
MaxInflight == 1      \* handlers suspended at their await at the same time
MaxIssued == 2        \* token grants the upstream makes in one behaviour

(***************************************************************************)
(* Values.  Absent stands for JavaScript's undefined (a query parameter, a *)
(* cookie or a JSON field that is not there).                              *)
(***************************************************************************)
Absent == "<absent>"

\* crypto.randomBytes(16).toString("hex"): lower-case hex strings
Nonces == {"a1", "b2"}
\* what a caller can put in ?state=: the nonces, a case variant of one of
\* them, or nothing
QueryStates == Nonces \cup {"A1", Absent}
Codes == {"c1"}
QueryCodes == Codes \cup {Absent}
QueryErrors == {Absent, "access_denied", "server_error"}

AccessTok(n) == "at" \o ToString(n)
RefreshTok(n) == "rt" \o ToString(n)
\* an access_token field in a response that is no grant
BogusAccess == "atX"
ExpiresValues == {3600}

VARIABLES
    cookies,        \* the user agent's cookie jar: spotify_state, refresh_token
    inflight,       \* bag of the handlers suspended at their await
    lastResp,       \* the last HTTP response delivered to the user agent
    codeState,      \* upstream: each authorization code unissued/valid/used
    validRefresh,   \* upstream: refresh tokens it currently accepts
    validAccess,    \* upstream: access tokens it has granted
    issued,         \* upstream: number of grants made so far
    spent,          \* history: state values whose callback passed the check and completed since the last login
    userPlaylist,   \* store: UserPlaylist rows
    discoveryLog,   \* store: DiscoveryLog rows
    card,           \* store: Card rows
    dailyCard,      \* store: DailyCard rows
    fkEnforced,     \* store: whether the database carries the schema's userId relations
    cuids,          \* store: number of row ids generated so far
    clock,          \* the server's clock, new Date() and the store's now()
    calls,          \* bag of the API handlers suspended at an await
    apiResp,        \* the last response of an API endpoint
    playlists,      \* upstream: the playlists that exist
    minted          \* upstream: number of playlist ids handed out so far

authVars == <<cookies, inflight, lastResp, codeState, validRefresh, validAccess,
              issued, spent>>
storeVars == <<userPlaylist, discoveryLog, card, dailyCard, fkEnforced, cuids>>
apiVars == <<calls, apiResp, playlists, minted>>
upstreamVars == <<codeState, validRefresh, validAccess, issued>>
vars == <<cookies, inflight, lastResp, codeState, validRefresh, validAccess,
          issued, spent, userPlaylist, discoveryLog, card, dailyCard,
          fkEnforced, cuids, clock, calls, apiResp, playlists, minted>>

(***************************************************************************)
(* A handler suspended at the await of the token endpoint: the grant type, *)
(* the credential (code or refresh token) in the body it sent and, as      *)
(* history, the state value that passed the check.                         *)
(***************************************************************************)
Request(kind, cred, state) == [kind |-> kind, cred |-> cred, state |-> state]

Pending == BagToSet(inflight)

(***************************************************************************)
(* The parsed JSON payload of the token endpoint (SpotifyTokenResponse /   *)
(* SpotifyErrorResponse) and the reply of one fetch.                       *)
(***************************************************************************)
EmptyPayload == [access_token |-> Absent, refresh_token |-> Absent,
                 expires_in |-> 0, error |-> Absent]

Payload(at, rt, exp, err) == [access_token |-> at, refresh_token |-> rt,
                              expires_in |-> exp, error |-> err]

\* fetch() rejected: no HTTP response at all
NetErr == [net |-> FALSE, ok |-> FALSE, json |-> FALSE, data |-> EmptyPayload]
\* an HTTP response whose body is not JSON (tokenRes.json() throws)
HttpRaw(ok) == [net |-> TRUE, ok |-> ok, json |-> FALSE, data |-> EmptyPayload]
HttpJson(ok, data) == [net |-> TRUE, ok |-> ok, json |-> TRUE, data |-> data]

(***************************************************************************)
(* HTTP responses.  setState / setRefresh are the Set-Cookie headers:      *)
(* NoChange (no header), Cleared (clearCookie) or the new value.           *)
(***************************************************************************)
NoChange == "<nochange>"
Cleared == "<cleared>"

NoResp == [ep |-> "none", status |-> 0, loc |-> "", param |-> "", text |-> "",
           isJson |-> FALSE, json |-> EmptyPayload,
           setState |-> NoChange, setRefresh |-> NoChange]

Redirect(ep, loc, param, setState, setRefresh) ==
    [ep |-> ep, status |-> 302, loc |-> loc, param |-> param, text |-> "",
     isJson |-> FALSE, json |-> EmptyPayload,
     setState |-> setState, setRefresh |-> setRefresh]

TextResp(ep, status, text, setState) ==
    [ep |-> ep, status |-> status, loc |-> "", param |-> "", text |-> text,
     isJson |-> FALSE, json |-> EmptyPayload,
     setState |-> setState, setRefresh |-> NoChange]

JsonResp(ep, status, data, setRefresh) ==
    [ep |-> ep, status |-> status, loc |-> "", param |-> "", text |-> "",
     isJson |-> TRUE, json |-> data,
     setState |-> NoChange, setRefresh |-> setRefresh]

\* JavaScript truthiness of an optional string
\* a test that takes every value as given
Truthy_Any(v) == TRUE

Truthy(v) == v # Absent /\ v # ""

\* res.cookie(name, value): express stores String(value)
CookieString(v) == IF v = Absent THEN "undefined" ELSE v

\* new URLSearchParams({..., code, ...}): a missing value is sent as "undefined"
ParamString(v) == IF v = Absent THEN "undefined" ELSE v

\* the user agent applies one Set-Cookie header to one cookie
ApplyOne(old, hdr) ==
    IF hdr = NoChange THEN old
    ELSE IF hdr = Cleared THEN Absent
    ELSE hdr

ApplySetCookie(jar, resp) ==
    [spotify_state |-> ApplyOne(jar.spotify_state, resp.setState),
     refresh_token |-> ApplyOne(jar.refresh_token, resp.setRefresh)]

(***************************************************************************)
(* GET /api/auth/login                                                     *)
(***************************************************************************)
LoginResponse(state) ==
    Redirect("login", "authorize", state, state, NoChange)

Login(n) ==
    /\ lastResp' = LoginResponse(n)
    /\ cookies' = ApplySetCookie(cookies, LoginResponse(n))
    /\ spent' = {}
    /\ UNCHANGED inflight
    /\ UNCHANGED upstreamVars
    /\ UNCHANGED <<storeVars, apiVars, clock>>

(***************************************************************************)
(* GET /api/auth/callback, up to the await of the token endpoint.          *)
(***************************************************************************)
AccessDenied(error) == error = "access_denied"

\* a case-insensitive comparison of the state values
Lower(v) == IF v = "A1" THEN "a1" ELSE v

StateMismatch_CaseInsensitive(state, storedState) ==
    ~Truthy(state) \/ Lower(state) # Lower(storedState)

\* !state || state !== storedState
StateMismatch(state, storedState) == ~Truthy(state) \/ state # storedState

\* a denial that clears the state cookie
DeniedResponse_ClearsState ==
    Redirect("callback", "login?error=access_denied", "", Cleared, NoChange)

DeniedResponse ==
    Redirect("callback", "login?error=access_denied", "", NoChange, NoChange)

MismatchResponse == TextResp("callback", 400, "State mismatch", NoChange)

\* the state check placed before the access_denied check
CallbackBranch_StateFirst(q, storedState) ==
    IF StateMismatch(q.state, storedState) THEN "mismatch"
    ELSE IF AccessDenied(q.error) THEN "denied"
    ELSE "exchange"

\* "denied", "mismatch" or "exchange": which branch the handler takes
CallbackBranch(q, storedState) ==
    IF AccessDenied(q.error) THEN "denied"
    ELSE IF StateMismatch(q.state, storedState) THEN "mismatch"
    ELSE "exchange"

CallbackBegin(q) ==
    LET branch == CallbackBranch(q, cookies.spotify_state) IN
    /\ \/ /\ branch = "denied"
          /\ lastResp' = DeniedResponse
          /\ cookies' = ApplySetCookie(cookies, DeniedResponse)
          /\ UNCHANGED inflight
       \/ /\ branch = "mismatch"
          /\ lastResp' = MismatchResponse
          /\ cookies' = ApplySetCookie(cookies, MismatchResponse)
          /\ UNCHANGED inflight
       \/ /\ branch = "exchange"
          /\ BagCardinality(inflight) < MaxInflight
          /\ inflight' = inflight (+)
                 SetToBag({Request("callback", ParamString(q.code), q.state)})
          /\ UNCHANGED <<lastResp, cookies>>
    /\ UNCHANGED spent
    /\ UNCHANGED upstreamVars
    /\ UNCHANGED <<storeVars, apiVars, clock>>

(***************************************************************************)
(* The upstream token endpoint.  It grants tokens only for a credential it *)
(* issued and still accepts; any request may also fail.                    *)
(***************************************************************************)
CredValid(req) ==
    IF req.kind = "callback"
    THEN req.cred \in Codes /\ codeState[req.cred] = "valid"
    ELSE req.cred \in validRefresh

GrantReplies(req) ==
    IF CredValid(req) /\ issued < MaxIssued
    THEN {HttpJson(TRUE, Payload(AccessTok(issued + 1), rt, exp, Absent)) :
             rt \in {RefreshTok(issued + 1), Absent}, exp \in ExpiresValues}
    ELSE {}

FailReplies ==
    {NetErr, HttpRaw(FALSE), HttpRaw(TRUE),
     HttpJson(FALSE, Payload(Absent, Absent, 0, "invalid_grant")),
     HttpJson(TRUE, EmptyPayload),
     HttpJson(FALSE, Payload(BogusAccess, "rtX", 3600, Absent))}

Replies(req) == GrantReplies(req) \cup FailReplies

UpstreamApply(req, reply) ==
    IF reply \in GrantReplies(req)
    THEN /\ issued' = issued + 1
         /\ validAccess' = validAccess \cup {reply.data.access_token}
         /\ codeState' = IF req.kind = "callback"
                         THEN [codeState EXCEPT ![req.cred] = "used"]
                         ELSE codeState
         /\ validRefresh' =
               IF reply.data.refresh_token = Absent THEN validRefresh
               ELSE IF req.kind = "callback"
                    THEN validRefresh \cup {reply.data.refresh_token}
                    ELSE (validRefresh \ {req.cred}) \cup {reply.data.refresh_token}
    ELSE UNCHANGED upstreamVars

\* the user approves at the authorize page: the upstream issues a code
Authorize(c) ==
    /\ codeState[c] = "unissued"
    /\ codeState' = [codeState EXCEPT ![c] = "valid"]
    /\ UNCHANGED <<cookies, inflight, lastResp, validRefresh, validAccess,
                   issued, spent>>
    /\ UNCHANGED <<storeVars, apiVars, clock>>

(***************************************************************************)
(* GET /api/auth/callback, from the reply of the token endpoint on.        *)
(* res.clearCookie("spotify_state") ran before the await, so every         *)
(* response of this part carries it.                                       *)
(***************************************************************************)
\* res.clearCookie("spotify_state") left out
CallbackResponse_KeepsNonce(reply) ==
    IF ~reply.net \/ ~reply.json
    THEN TextResp("callback", 500, "Error retrieving tokens", NoChange)
    ELSE IF ~reply.ok \/ ~Truthy(reply.data.access_token)
    THEN Redirect("callback", "login?error=invalid_code", "", NoChange, NoChange)
    ELSE Redirect("callback", "cards", reply.data.access_token, NoChange,
                  CookieString(reply.data.refresh_token))

\* the access token stored in the refresh_token cookie
CallbackResponse_StoresAccess(reply) ==
    IF ~reply.net \/ ~reply.json
    THEN TextResp("callback", 500, "Error retrieving tokens", Cleared)
    ELSE IF ~reply.ok \/ ~Truthy(reply.data.access_token)
    THEN Redirect("callback", "login?error=invalid_code", "", Cleared, NoChange)
    ELSE Redirect("callback", "cards", reply.data.access_token, Cleared,
                  CookieString(reply.data.access_token))

\* the upstream error body passed on with 400 instead of the redirect
CallbackResponse_LeaksBody(reply) ==
    IF ~reply.net \/ ~reply.json
    THEN TextResp("callback", 500, "Error retrieving tokens", Cleared)
    ELSE IF ~reply.ok \/ ~Truthy(reply.data.access_token)
    THEN [ep |-> "callback", status |-> 400, loc |-> "", param |-> "",
          text |-> "", isJson |-> TRUE, json |-> reply.data,
          setState |-> Cleared, setRefresh |-> NoChange]
    ELSE Redirect("callback", "cards", reply.data.access_token, Cleared,
                  CookieString(reply.data.refresh_token))

\* the refresh_token cookie never set
CallbackResponse_NoCookie(reply) ==
    IF ~reply.net \/ ~reply.json
    THEN TextResp("callback", 500, "Error retrieving tokens", Cleared)
    ELSE IF ~reply.ok \/ ~Truthy(reply.data.access_token)
    THEN Redirect("callback", "login?error=invalid_code", "", Cleared, NoChange)
    ELSE Redirect("callback", "cards", reply.data.access_token, Cleared, NoChange)

CallbackResponse(reply) ==
    IF ~reply.net \/ ~reply.json
    THEN TextResp("callback", 500, "Error retrieving tokens", Cleared)
    ELSE IF ~reply.ok \/ ~Truthy(reply.data.access_token)
    THEN Redirect("callback", "login?error=invalid_code", "", Cleared, NoChange)
    ELSE Redirect("callback", "cards", reply.data.access_token, Cleared,
                  CookieString(reply.data.refresh_token))

CallbackFinish(req, reply) ==
    /\ BagIn(req, inflight)
    /\ req.kind = "callback"
    /\ reply \in Replies(req)
    /\ UpstreamApply(req, reply)
    /\ lastResp' = CallbackResponse(reply)
    /\ cookies' = ApplySetCookie(cookies, CallbackResponse(reply))
    /\ inflight' = inflight (-) SetToBag({req})
    /\ spent' = spent \cup {req.state}
    /\ UNCHANGED <<storeVars, apiVars, clock>>

(***************************************************************************)
(* GET /api/auth/refresh                                                   *)
(***************************************************************************)
\* a redirect to the login page instead of the plain 401
UnauthorizedResponse_Redirect ==
    Redirect("refresh", "login?error=unauthorized", "", NoChange, NoChange)

\* res.sendStatus(401)
UnauthorizedResponse == TextResp("refresh", 401, "Unauthorized", NoChange)

RefreshBegin ==
    /\ IF ~Truthy(cookies.refresh_token)
       THEN /\ lastResp' = UnauthorizedResponse
            /\ cookies' = ApplySetCookie(cookies, UnauthorizedResponse)
            /\ UNCHANGED inflight
       ELSE /\ BagCardinality(inflight) < MaxInflight
            /\ inflight' = inflight (+)
                   SetToBag({Request("refresh", cookies.refresh_token, Absent)})
            /\ UNCHANGED <<lastResp, cookies>>
    /\ UNCHANGED spent
    /\ UNCHANGED upstreamVars
    /\ UNCHANGED <<storeVars, apiVars, clock>>

\* the refresh_token cookie cleared when the upstream rejects the refresh
RefreshResponse_ClearsOnReject(reply) ==
    IF ~reply.net \/ ~reply.json
    THEN TextResp("refresh", 500, "Error refreshing token", NoChange)
    ELSE IF ~reply.ok \/ ~Truthy(reply.data.access_token)
    THEN JsonResp("refresh", 400, reply.data, Cleared)
    ELSE JsonResp("refresh", 200,
                  Payload(reply.data.access_token, Absent,
                          reply.data.expires_in, Absent),
                  IF Truthy(reply.data.refresh_token)
                  THEN reply.data.refresh_token ELSE NoChange)

\* the cookie re-issued without the check that a new token came back
RefreshResponse_AlwaysSets(reply) ==
    IF ~reply.net \/ ~reply.json
    THEN TextResp("refresh", 500, "Error refreshing token", NoChange)
    ELSE IF ~reply.ok \/ ~Truthy(reply.data.access_token)
    THEN JsonResp("refresh", 400, reply.data, NoChange)
    ELSE JsonResp("refresh", 200,
                  Payload(reply.data.access_token, Absent,
                          reply.data.expires_in, Absent),
                  CookieString(reply.data.refresh_token))

RefreshResponse(reply) ==
    IF ~reply.net \/ ~reply.json
    THEN TextResp("refresh", 500, "Error refreshing token", NoChange)
    ELSE IF ~reply.ok \/ ~Truthy(reply.data.access_token)
    THEN JsonResp("refresh", 400, reply.data, NoChange)
    ELSE JsonResp("refresh", 200,
                  Payload(reply.data.access_token, Absent,
                          reply.data.expires_in, Absent),
                  IF Truthy(reply.data.refresh_token)
                  THEN reply.data.refresh_token ELSE NoChange)

RefreshFinish(req, reply) ==
    /\ BagIn(req, inflight)
    /\ req.kind = "refresh"
    /\ reply \in Replies(req)
    /\ UpstreamApply(req, reply)
    /\ lastResp' = RefreshResponse(reply)
    /\ cookies' = ApplySetCookie(cookies, RefreshResponse(reply))
    /\ inflight' = inflight (-) SetToBag({req})
    /\ UNCHANGED spent
    /\ UNCHANGED <<storeVars, apiVars, clock>>

(***************************************************************************)
(* POST /api/auth/logout                                                   *)
(***************************************************************************)
\* res.clearCookie("refresh_token") left out
LogoutResponse_NoClear ==
    [ep |-> "logout", status |-> 204, loc |-> "", param |-> "", text |-> "",
     isJson |-> FALSE, json |-> EmptyPayload,
     setState |-> NoChange, setRefresh |-> NoChange]

\* res.clearCookie("refresh_token", ...); res.sendStatus(204)
LogoutResponse ==
    [ep |-> "logout", status |-> 204, loc |-> "", param |-> "", text |-> "",
     isJson |-> FALSE, json |-> EmptyPayload,
     setState |-> NoChange, setRefresh |-> Cleared]

Logout ==
    /\ lastResp' = LogoutResponse
    /\ cookies' = ApplySetCookie(cookies, LogoutResponse)
    /\ UNCHANGED <<inflight, spent>>
    /\ UNCHANGED upstreamVars
    /\ UNCHANGED <<storeVars, apiVars, clock>>

(***************************************************************************)
(* The user agent drops a cookie whose maxAge has passed.                  *)
(***************************************************************************)
ExpireStateCookie ==
    /\ cookies.spotify_state # Absent
    /\ cookies' = [cookies EXCEPT !.spotify_state = Absent]
    /\ UNCHANGED <<inflight, lastResp, spent>>
    /\ UNCHANGED upstreamVars
    /\ UNCHANGED <<storeVars, apiVars, clock>>

ExpireRefreshCookie ==
    /\ cookies.refresh_token # Absent
    /\ cookies' = [cookies EXCEPT !.refresh_token = Absent]
    /\ UNCHANGED <<inflight, lastResp, spent>>
    /\ UNCHANGED upstreamVars
    /\ UNCHANGED <<storeVars, apiVars, clock>>

(***************************************************************************)
(* API endpoints: values.  A bearer token stands for the upstream user it  *)
(* was granted to; upstream playlist ids and generated row ids are         *)
(* numbered in the order they are handed out.                              *)
(***************************************************************************)
MaxCalls == 2         \* API handlers suspended at an await at the same time
MaxPlaylists == 2     \* playlist ids the upstream hands out in one behaviour
MaxRows == 2          \* row ids the store generates in one behaviour

Users == {"u1", "u2"}
TokenFor(u) == "tok-" \o u
BadToken == "tok-x"
\* the Authorization headers that requests on behalf of users carry or lack
AuthHeaders(users) == {TokenFor(u) : u \in users} \cup {BadToken, Absent}

\* the name the handlers give to and look for in the user's playlists
ManagedName == "SoundHaven"
PlaylistNames == {ManagedName, "soundhaven"}
TrackUris == {"t1"}
\* items one upstream playlist takes in a behaviour
TrackLimit == Cardinality(TrackUris)

\* items per page of the playlist listing (the code asks for limit=50)
PageLimit == 1

NoEntry == [id |-> 0, userId |-> Absent, cardTitle |-> Absent, createdAt |-> 0,
            trackUri |-> Absent, added |-> FALSE]

\* the JSON body of an API response; shape names the fields that are there
NoBody == [shape |-> "none", error |-> Absent, message |-> Absent,
           playlist_id |-> 0, exists |-> FALSE, success |-> FALSE,
           id |-> 0, entry |-> NoEntry, cards |-> EmptyBag]

ErrorBody(msg) == [NoBody EXCEPT !.shape = "error", !.error = msg]

ApiJson(ep, status, body) == [ep |-> ep, status |-> status, body |-> body]

NoApiResp == ApiJson("none", 0, NoBody)

(***************************************************************************)
(* Specification of the auth flow.                                         *)
(***************************************************************************)
Query == [code : QueryCodes, state : QueryStates, error : QueryErrors]

InitAuth ==
    /\ cookies = [spotify_state |-> Absent, refresh_token |-> Absent]
    /\ inflight = EmptyBag
    /\ lastResp = NoResp
    /\ codeState = [c \in Codes |-> "unissued"]
    /\ validRefresh = {}
    /\ validAccess = {}
    /\ issued = 0
    /\ spent = {}
    /\ userPlaylist = {}
    /\ discoveryLog = {}
    /\ card = {}
    /\ dailyCard = {}
    /\ fkEnforced = FALSE
    /\ cuids = 0
    /\ clock = 0
    /\ calls = EmptyBag
    /\ apiResp = NoApiResp
    /\ playlists = {}
    /\ minted = 0

NextAuth ==
    \/ \E n \in Nonces : Login(n)
    \/ \E c \in Codes : Authorize(c)
    \/ \E q \in Query : CallbackBegin(q)
    \/ \E req \in Pending : \E reply \in Replies(req) : CallbackFinish(req, reply)
    \/ RefreshBegin
    \/ \E req \in Pending : \E reply \in Replies(req) : RefreshFinish(req, reply)
    \/ Logout
    \/ ExpireStateCookie
    \/ ExpireRefreshCookie

SpecAuth == InitAuth /\ [][NextAuth]_vars

TypeOK ==
    /\ cookies.spotify_state \in Nonces \cup {Absent}
    /\ issued \in 0..MaxIssued
    /\ BagCardinality(inflight) <= MaxInflight
    /\ \A r \in Pending : r.kind \in {"callback", "refresh"}

(***************************************************************************)
(* Properties of the auth flow.                                            *)
(***************************************************************************)
\* the query's state is missing or differs from the spotify_state cookie
\* (an absent cookie differs from every value)
Mismatched(q) == q.state = Absent \/ q.state # cookies.spotify_state

\* the step called neither the token endpoint nor changed the upstream
NoExchange == inflight' = inflight /\ UNCHANGED upstreamVars

Is400Mismatch(r) ==
    r.ep = "callback" /\ r.status = 400 /\ r.text = "State mismatch"

IsDeniedRedirect(r) ==
    r.ep = "callback" /\ r.status = 302 /\ r.loc = "login?error=access_denied"

\* the reply of the token endpoint is 2xx with an access_token in its payload
ExchangeSucceeded(reply) ==
    reply.net /\ reply.json /\ reply.ok /\ reply.data.access_token # Absent

\* C1 as stated: every callback whose state is missing or differs from the
\* spotify_state cookie is answered 400 "State mismatch" without a call to the
\* token endpoint, whatever code and error are.
C1_Original ==
    [][\A q \in Query :
         (Mismatched(q) /\ CallbackBegin(q))
            => (Is400Mismatch(lastResp') /\ NoExchange)]_vars

\* C1 amended: a callback whose state is missing or differs from the cookie
\* never calls the token endpoint and leaves the cookies alone; it is answered
\* 400 "State mismatch", except that with error=access_denied it is answered
\* by the access_denied redirect.
C1_MismatchNeverExchanges ==
    [][\A q \in Query :
         (Mismatched(q) /\ CallbackBegin(q))
            => /\ NoExchange
               /\ cookies' = cookies
               /\ IF q.error = "access_denied"
                  THEN IsDeniedRedirect(lastResp')
                  ELSE Is400Mismatch(lastResp')]_vars

\* a 400 "State mismatch" was answered while a nonce cookie exists
C1_Witness ==
    /\ Is400Mismatch(lastResp)
    /\ cookies.spotify_state \in Nonces
    /\ inflight = EmptyBag

\* C2: a callback with error=access_denied is redirected to the login page
\* with error=access_denied, calls no token endpoint and sets no cookie.
C2_AccessDeniedRejected ==
    [][\A q \in Query :
         (q.error = "access_denied" /\ CallbackBegin(q))
            => /\ IsDeniedRedirect(lastResp')
               /\ lastResp'.setRefresh = NoChange
               /\ lastResp'.param = ""
               /\ cookies' = cookies
               /\ NoExchange]_vars

\* the access_denied redirect was answered while a nonce was pending
C2_Witness ==
    /\ IsDeniedRedirect(lastResp)
    /\ cookies.spotify_state \in Nonces
    /\ cookies.refresh_token = Absent

\* C3 as stated: every response after the state check clears the nonce cookie,
\* and a later callback carrying a state value that already passed, with no
\* login in between, is answered 400 without a call to the token endpoint.
C3_Original ==
    [][/\ \A req \in Pending : \A reply \in Replies(req) :
             CallbackFinish(req, reply) => cookies'.spotify_state = Absent
       /\ \A q \in Query :
             (q.state \in spent /\ CallbackBegin(q))
                => (Is400Mismatch(lastResp') /\ NoExchange)]_vars

\* C3 amended: as stated, except that the later callback is answered by the
\* access_denied redirect instead of the 400 when it carries
\* error=access_denied; in both cases no token exchange happens.
C3_NonceSingleUse ==
    [][/\ \A req \in Pending : \A reply \in Replies(req) :
             CallbackFinish(req, reply) => cookies'.spotify_state = Absent
       /\ \A q \in Query :
             (q.state \in spent /\ CallbackBegin(q))
                => /\ NoExchange
                   /\ IF q.error = "access_denied"
                      THEN IsDeniedRedirect(lastResp')
                      ELSE Is400Mismatch(lastResp')]_vars

\* a replayed state value was answered 400 after its first exchange succeeded
C3_Witness ==
    /\ Is400Mismatch(lastResp)
    /\ spent # {}
    /\ issued > 0
    /\ cookies.spotify_state = Absent

ExchangeRejected(reply) ==
    reply.net /\ (~reply.ok \/ (reply.json /\ reply.data.access_token = Absent))

\* C5 as stated: when the code exchange returns a non-2xx response or a
\* payload without an access token, the callback redirects to the login page
\* with error=invalid_code, leaves the refresh_token cookie unchanged and puts
\* neither an access token nor the upstream body in the response.
C5_Original ==
    [][\A req \in Pending : \A reply \in Replies(req) :
         (ExchangeRejected(reply) /\ CallbackFinish(req, reply))
            => /\ lastResp'.status = 302
               /\ lastResp'.loc = "login?error=invalid_code"
               /\ lastResp'.param = ""
               /\ ~lastResp'.isJson
               /\ lastResp'.setRefresh = NoChange
               /\ cookies'.refresh_token = cookies.refresh_token]_vars

\* C5 amended: when the rejected exchange has a JSON body the callback
\* redirects to the login page with error=invalid_code; when the body is not
\* JSON it answers 500 "Error retrieving tokens"; in both cases the
\* refresh_token cookie is unchanged and the response carries neither an
\* access token nor the upstream body.
C5_RejectedExchange ==
    [][\A req \in Pending : \A reply \in Replies(req) :
         (ExchangeRejected(reply) /\ CallbackFinish(req, reply))
            => /\ IF reply.json
                  THEN /\ lastResp'.status = 302
                       /\ lastResp'.loc = "login?error=invalid_code"
                  ELSE /\ lastResp'.status = 500
                       /\ lastResp'.text = "Error retrieving tokens"
                       /\ lastResp'.loc = ""
               /\ lastResp'.param = ""
               /\ ~lastResp'.isJson
               /\ lastResp'.json = EmptyPayload
               /\ lastResp'.setRefresh = NoChange
               /\ cookies'.refresh_token = cookies.refresh_token]_vars

\* a failed exchange was answered by the invalid_code redirect while the
\* cookie of an earlier session is still in place
C5_Witness ==
    /\ lastResp.ep = "callback"
    /\ lastResp.loc = "login?error=invalid_code"
    /\ cookies.refresh_token \in validRefresh

\* C6: a refresh without a refresh_token cookie is answered by a plain 401,
\* with no redirect, no call to the token endpoint and no cookie set.
C6_RefreshWithoutCookie ==
    [][(cookies.refresh_token = Absent /\ RefreshBegin)
          => /\ lastResp'.ep = "refresh"
             /\ lastResp'.status = 401
             /\ lastResp'.loc = ""
             /\ ~lastResp'.isJson
             /\ lastResp'.setState = NoChange
             /\ lastResp'.setRefresh = NoChange
             /\ cookies' = cookies
             /\ NoExchange]_vars

\* the 401 was answered after a session had existed and was logged out
C6_Witness ==
    /\ lastResp.ep = "refresh"
    /\ lastResp.status = 401
    /\ cookies.refresh_token = Absent
    /\ validRefresh # {}

\* the refresh token the upstream issued last (none: Absent); a token is only
\* withdrawn by the grant that issues its successor
LatestRefresh ==
    IF validRefresh = {} THEN Absent
    ELSE RefreshTok(CHOOSE n \in 1..issued :
                       /\ RefreshTok(n) \in validRefresh
                       /\ \A m \in 1..issued :
                             RefreshTok(m) \in validRefresh => m <= n)

C8_Original ==
    [][\A req \in Pending : \A reply \in Replies(req) :
         (ExchangeRejected(reply) /\ RefreshFinish(req, reply))
            => /\ lastResp'.status = 400
               /\ lastResp'.isJson = reply.json
               /\ lastResp'.json = reply.data
               /\ lastResp'.setRefresh = NoChange
               /\ cookies'.refresh_token = cookies.refresh_token]_vars

\* C8 amended: when the rejected refresh has a JSON body the answer is 400
\* with that body; when the body is not JSON the answer is 500 "Error
\* refreshing token"; in both cases the refresh_token cookie is left unchanged.
C8_RejectedRefresh ==
    [][\A req \in Pending : \A reply \in Replies(req) :
         (ExchangeRejected(reply) /\ RefreshFinish(req, reply))
            => /\ IF reply.json
                  THEN /\ lastResp'.status = 400
                       /\ lastResp'.isJson
                       /\ lastResp'.json = reply.data
                  ELSE /\ lastResp'.status = 500
                       /\ lastResp'.text = "Error refreshing token"
                       /\ ~lastResp'.isJson
               /\ lastResp'.setRefresh = NoChange
               /\ cookies'.refresh_token = cookies.refresh_token]_vars

\* a rejected refresh was answered 400 with the upstream's error and the
\* cookie still holds the token that was presented
C8_Witness ==
    /\ lastResp.ep = "refresh"
    /\ lastResp.status = 400
    /\ lastResp.json.error = "invalid_grant"
    /\ cookies.refresh_token \in validRefresh

\* C9: logout answers 204 and clears the refresh_token cookie whether or not
\* it exists, changes nothing else (nonce cookie, store, upstream, pending
\* requests), and applying it twice gives the state of applying it once.
C9_LogoutIdempotent ==
    [][Logout
          => LET once == ApplySetCookie(cookies, lastResp')
                 twice == ApplySetCookie(once, lastResp')
             IN /\ lastResp'.ep = "logout"
                /\ lastResp'.status = 204
                /\ cookies'.refresh_token = Absent
                /\ cookies'.spotify_state = cookies.spotify_state
                /\ cookies' = once
                /\ twice = once
                /\ cookies.refresh_token = Absent => cookies' = cookies
                /\ NoExchange
                /\ UNCHANGED storeVars]_vars

\* logout was answered 204 after a session had existed, and the cookie is gone
C9_Witness ==
    /\ lastResp.ep = "logout"
    /\ lastResp.status = 204
    /\ cookies.refresh_token = Absent
    /\ validRefresh # {}

\* the last delivered response is a successful callback whose exchange
\* issued a refresh token (it is then the grant numbered `issued`)
AfterCallbackGrant ==
    /\ lastResp.ep = "callback"
    /\ lastResp.loc = "cards"
    /\ RefreshTok(issued) \in validRefresh

\* C10: a refresh that follows a successful callback presents to the token
\* endpoint the refresh token issued in that callback's exchange, and when the
\* upstream honours a refresh token it accepts, the refresh is answered 200
\* with a newly granted access token.
C10_ExchangeThenRefresh ==
    [][/\ (AfterCallbackGrant /\ cookies.refresh_token # Absent /\ RefreshBegin)
             => inflight' = inflight (+)
                   SetToBag({Request("refresh", RefreshTok(issued), Absent)})
       /\ \A req \in Pending : \A reply \in Replies(req) :
             (/\ ExchangeSucceeded(reply)
              /\ req.cred \in validRefresh
              /\ RefreshFinish(req, reply))
                => /\ lastResp'.status = 200
                   /\ lastResp'.json.access_token \in validAccess' \ validAccess]_vars

\* after one code exchange, a refresh was answered 200 with the second grant
C10_Witness ==
    /\ lastResp.ep = "refresh"
    /\ lastResp.status = 200
    /\ lastResp.json.access_token = AccessTok(2)
    /\ AccessTok(2) \in validAccess
    /\ issued = 2
    /\ Cardinality({c \in Codes : codeState[c] = "used"}) = 1

(***************************************************************************)
(* The playlist endpoints: /api/playlist/create, /add and /exists.  Each   *)
(* handler is split at its awaits of the store and of the upstream; the    *)
(* fetch of /v1/me, which reads no state that changes, is taken together   *)
(* with the store read that follows it.                                    *)
(***************************************************************************)
NoRow == [id |-> 0, userId |-> Absent, playlistId |-> 0]

\* a handler suspended at an await, with the locals it carries across it
Call(ep, pc, user, pid, offset, uri) ==
    [ep |-> ep, pc |-> pc, user |-> user, pid |-> pid, offset |-> offset,
     uri |-> uri, title |-> Absent, added |-> FALSE, entryId |-> 0,
     start |-> 0, seen |-> {}, cands |-> {}]

Suspended == BagToSet(calls)

\* GET /v1/me with a bearer token: fetch or json() fails, or a body whose
\* id is the token's user (undefined in the error body of a refused token)
MeFailed == "<failed>"
WhoAmI(token) ==
    IF \E u \in Users : TokenFor(u) = token
    THEN CHOOSE u \in Users : TokenFor(u) = token
    ELSE Absent
MeReplies(token) == {MeFailed, WhoAmI(token)}

\* prisma.userPlaylist.findUnique({ where: { userId } }); null is NoRow
\* a lookup that never finds the row
FindUnique_NoMatch(table, u) == NoRow

FindUnique(table, u) ==
    IF \E r \in table : r.userId = u
    THEN CHOOSE r \in table : r.userId = u
    ELSE NoRow

\* the unique index on UserPlaylist.userId refuses a second row of a user
UniqueViolation_NoIndex(table, u) == FALSE

UniqueViolation(table, u) == \E r \in table : r.userId = u

\* the rows of table left when the UserPlaylist row of u is deleted
\* (onDelete: Cascade of the userId relations, where the database has them)
CascadeDelete(table, u) ==
    IF fkEnforced THEN {r \in table : r.userId # u} ELSE table

PlaylistIdBody(pid) == [NoBody EXCEPT !.shape = "playlist_id", !.playlist_id = pid]

Respond(r) == apiResp' = r

Suspend(c) == calls' = calls (+) SetToBag({c})
Resume(c, d) == calls' = (calls (-) SetToBag({c})) (+) SetToBag({d})
\* a handler that issues its call again
Finish_Retry(c) == calls' = calls

Finish(c) == calls' = calls (-) SetToBag({c})

(***************************************************************************)
(* POST /api/playlist/create                                               *)
(***************************************************************************)
\* up to the first store read: 401, 500, the stored id, or the upstream create
CreateBegin(limit, auth, me) ==
    /\ BagCardinality(calls) < limit
    /\ IF ~Truthy(auth)
       THEN /\ Respond(ApiJson("create", 401, ErrorBody("No token")))
            /\ UNCHANGED calls
       ELSE IF me = MeFailed \/ me = Absent
       THEN /\ Respond(ApiJson("create", 500, ErrorBody("Error creando playlist")))
            /\ UNCHANGED calls
       ELSE LET record == FindUnique(userPlaylist, me) IN
            IF record # NoRow
            THEN /\ Respond(ApiJson("create", 200, PlaylistIdBody(record.playlistId)))
                 /\ UNCHANGED calls
            ELSE /\ Suspend(Call("create", "create", me, 0, 0, Absent))
                 /\ UNCHANGED apiResp
    /\ UNCHANGED <<playlists, minted>>
    /\ UNCHANGED storeVars
    /\ UNCHANGED <<authVars, clock>>

\* POST /v1/users/{id}/playlists answers: a new playlist, or a failure
NewPlaylist(id, owner, name) ==
    [id |-> id, owner |-> owner, name |-> name, tracks |-> <<>>]

CreateUpstream(c, ok) ==
    /\ c.ep = "create" /\ c.pc = "create"
    /\ IF ok
       THEN /\ minted < MaxPlaylists
            /\ minted' = minted + 1
            /\ playlists' = playlists \cup {NewPlaylist(minted + 1, c.user, ManagedName)}
            /\ Resume(c, [c EXCEPT !.pc = "persist", !.pid = minted + 1])
            /\ UNCHANGED apiResp
       ELSE /\ Finish(c)
            /\ Respond(ApiJson("create", 500, ErrorBody("Error creando playlist")))
            /\ UNCHANGED <<playlists, minted>>
    /\ UNCHANGED storeVars
    /\ UNCHANGED <<authVars, clock>>

\* prisma.userPlaylist.create({ data: { userId, playlistId } })
\* @default(cuid()): an id no row of the table has
FreshId(table) ==
    CHOOSE n \in 1..(Cardinality(table) + 1) :
        /\ \A r \in table : r.id # n
        /\ \A m \in 1..(n - 1) : \E r \in table : r.id = m

InsertUserPlaylist(u, pid) ==
    userPlaylist' = userPlaylist \cup
                      {[id |-> FreshId(userPlaylist), userId |-> u, playlistId |-> pid]}

\* prisma.userPlaylist.upsert in the place of create: the last write wins
CreatePersist_Upsert(c) ==
    /\ c.ep = "create" /\ c.pc = "persist"
    /\ Finish(c)
    /\ userPlaylist' = {r \in userPlaylist : r.userId # c.user} \cup
                         {[id |-> FreshId(userPlaylist), userId |-> c.user,
                           playlistId |-> c.pid]}
    /\ Respond(ApiJson("create", 200, PlaylistIdBody(c.pid)))
    /\ UNCHANGED <<discoveryLog, card, dailyCard, fkEnforced, cuids>>
    /\ UNCHANGED <<playlists, minted>>
    /\ UNCHANGED <<authVars, clock>>

CreatePersist(c) ==
    /\ c.ep = "create" /\ c.pc = "persist"
    /\ Finish(c)
    /\ IF UniqueViolation(userPlaylist, c.user)
       THEN /\ Respond(ApiJson("create", 500, ErrorBody("Error creando playlist")))
            /\ UNCHANGED userPlaylist
       ELSE /\ InsertUserPlaylist(c.user, c.pid)
            /\ Respond(ApiJson("create", 200, PlaylistIdBody(c.pid)))
    /\ UNCHANGED <<discoveryLog, card, dailyCard, fkEnforced, cuids>>
    /\ UNCHANGED <<playlists, minted>>
    /\ UNCHANGED <<authVars, clock>>

(***************************************************************************)
(* The user, outside this server: makes a playlist by hand, or removes one *)
(***************************************************************************)
UserMakesPlaylist(u, name) ==
    /\ minted < MaxPlaylists
    /\ minted' = minted + 1
    /\ playlists' = playlists \cup {NewPlaylist(minted + 1, u, name)}
    /\ UNCHANGED <<calls, apiResp>>
    /\ UNCHANGED storeVars
    /\ UNCHANGED <<authVars, clock>>

UserRemovesPlaylist(p) ==
    /\ playlists' = playlists \ {p}
    /\ UNCHANGED <<calls, apiResp, minted>>
    /\ UNCHANGED storeVars
    /\ UNCHANGED <<authVars, clock>>

(***************************************************************************)
(* POST /api/playlist/add                                                  *)
(***************************************************************************)
SuccessBody == [NoBody EXCEPT !.shape = "success", !.success = TRUE]

\* if (!record): the request ends with 404
AddRefused_Never(record) == FALSE

AddRefused(record) == record = NoRow

\* up to the store read: 400, 500, 404, or the upstream add-item call
AddBegin(limit, auth, uri, me) ==
    /\ BagCardinality(calls) < limit
    /\ IF ~Truthy(auth) \/ ~Truthy(uri)
       THEN /\ Respond(ApiJson("add", 400, ErrorBody("Faltan datos")))
            /\ UNCHANGED calls
       ELSE IF me = MeFailed \/ me = Absent
       THEN /\ Respond(ApiJson("add", 500, ErrorBody("Error al añadir canción")))
            /\ UNCHANGED calls
       ELSE LET record == FindUnique(userPlaylist, me) IN
            IF AddRefused(record)
            THEN /\ Respond(ApiJson("add", 404, ErrorBody("Playlist no encontrada")))
                 /\ UNCHANGED calls
            ELSE /\ Suspend(Call("add", "add", me, record.playlistId, 0, uri))
                 /\ UNCHANGED apiResp
    /\ UNCHANGED <<playlists, minted>>
    /\ UNCHANGED storeVars
    /\ UNCHANGED <<authVars, clock>>

\* POST /v1/playlists/{id}/tracks: the item is appended, or the call fails
AddFinish(c, ok) ==
    /\ c.ep = "add" /\ c.pc = "add"
    /\ Finish(c)
    /\ IF ok
       THEN /\ \E p \in playlists :
                 /\ p.id = c.pid
                 /\ Len(p.tracks) < TrackLimit
                 /\ playlists' = (playlists \ {p}) \cup
                                   {[p EXCEPT !.tracks = Append(@, c.uri)]}
            /\ Respond(ApiJson("add", 200, SuccessBody))
       ELSE /\ Respond(ApiJson("add", 500, ErrorBody("Error al añadir canción")))
            /\ UNCHANGED playlists
    /\ UNCHANGED minted
    /\ UNCHANGED storeVars
    /\ UNCHANGED <<authVars, clock>>

(***************************************************************************)
(* GET /api/playlist/exists                                                *)
(***************************************************************************)
ExistsBody(b) == [NoBody EXCEPT !.shape = "exists", !.exists = b]

\* GET /v1/me/playlists?limit=&offset=: the user's playlists in id order
RECURSIVE InIdOrder(_)
InIdOrder(S) ==
    IF S = {} THEN <<>>
    ELSE LET first == CHOOSE p \in S : \A q \in S : p.id <= q.id
         IN <<first>> \o InIdOrder(S \ {first})

Listing(u) == InIdOrder({p \in playlists : p.owner = u})

\* next: null
NoNext == -1
PageOf(u, offset) ==
    LET all == Listing(u)
        last == IF offset + PageLimit < Len(all) THEN offset + PageLimit ELSE Len(all)
    IN [items |-> SubSeq(all, offset + 1, last),
        next |-> IF offset + PageLimit < Len(all) THEN offset + PageLimit ELSE NoNext]

\* p.name === "SoundHaven"
\* a comparison that ignores case
NameMatches_IgnoreCase(name) == name \in PlaylistNames

NameMatches(name) == name = ManagedName

\* data.items.find(p => p.name === "SoundHaven"); 0 when there is none
FirstMatch(items) ==
    IF \E i \in 1..Len(items) : NameMatches(items[i].name)
    THEN LET i == CHOOSE i \in 1..Len(items) :
                     /\ NameMatches(items[i].name)
                     /\ \A j \in 1..(i - 1) : ~NameMatches(items[j].name)
         IN items[i].id
    ELSE 0

\* GET /v1/playlists/{id}: 200 for a playlist that is there, 404 for one that
\* is not, and on any day a failure status; 0 is a fetch that rejects
CheckStatuses(pid) ==
    (IF \E p \in playlists : p.id = pid THEN {200} ELSE {404}) \cup {0, 401, 503}

\* up to the store read: 401, 500, the upstream check, or the name search
ExistsBegin(limit, auth, me) ==
    /\ BagCardinality(calls) < limit
    /\ IF ~Truthy(auth)
       THEN /\ Respond(ApiJson("exists", 401, ErrorBody("Falta token")))
            /\ UNCHANGED calls
       ELSE IF me = MeFailed \/ me = Absent
       THEN /\ Respond(ApiJson("exists", 500, ErrorBody("Error interno")))
            /\ UNCHANGED calls
       ELSE LET record == FindUnique(userPlaylist, me) IN
            /\ IF record # NoRow
               THEN Suspend(Call("exists", "check", me, record.playlistId, 0, Absent))
               ELSE Suspend(Call("exists", "search", me, 0, 0, Absent))
            /\ UNCHANGED apiResp
    /\ UNCHANGED <<playlists, minted>>
    /\ UNCHANGED storeVars
    /\ UNCHANGED <<authVars, clock>>

\* the status that lets the handler keep the stored row
KeepsRow_Always(status) == TRUE

KeepsRow(status) == status = 200

\* the answer of GET /v1/playlists/{id} arrives
ExistsCheck(c, status) ==
    /\ c.ep = "exists" /\ c.pc = "check"
    /\ IF status = 0
       THEN /\ Finish(c)
            /\ Respond(ApiJson("exists", 500, ErrorBody("Error interno")))
       ELSE IF KeepsRow(status)
       THEN /\ Finish(c)
            /\ Respond(ApiJson("exists", 200, ExistsBody(TRUE)))
       ELSE /\ Resume(c, [c EXCEPT !.pc = "delete"])
            /\ UNCHANGED apiResp
    /\ UNCHANGED <<playlists, minted>>
    /\ UNCHANGED storeVars
    /\ UNCHANGED <<authVars, clock>>

\* prisma.userPlaylist.delete({ where: { userId } }); throws when no row is there
ExistsDelete(c) ==
    /\ c.ep = "exists" /\ c.pc = "delete"
    /\ IF FindUnique(userPlaylist, c.user) = NoRow
       THEN /\ Finish(c)
            /\ Respond(ApiJson("exists", 500, ErrorBody("Error interno")))
            /\ UNCHANGED <<userPlaylist, discoveryLog, dailyCard>>
       ELSE /\ userPlaylist' = {r \in userPlaylist : r.userId # c.user}
            /\ discoveryLog' = CascadeDelete(discoveryLog, c.user)
            /\ dailyCard' = CascadeDelete(dailyCard, c.user)
            /\ Resume(c, [c EXCEPT !.pc = "search"])
            /\ UNCHANGED apiResp
    /\ UNCHANGED <<card, fkEnforced, cuids>>
    /\ UNCHANGED <<playlists, minted>>
    /\ UNCHANGED <<authVars, clock>>

\* a loop that asks for the same page again
NextUrl_Same(c, data) == c.offset

\* nextUrl = data.next
NextUrl(c, data) == data.next

\* one page of GET /v1/me/playlists arrives, or the fetch fails
ExistsSearch(c, ok) ==
    /\ c.ep = "exists" /\ c.pc = "search"
    /\ IF ~ok
       THEN /\ Finish(c)
            /\ Respond(ApiJson("exists", 500, ErrorBody("Error interno")))
       ELSE LET data == PageOf(c.user, c.offset)
                found == FirstMatch(data.items)
            IN IF found # 0
               THEN /\ Resume(c, [c EXCEPT !.pc = "persist", !.pid = found])
                    /\ UNCHANGED apiResp
               ELSE IF data.next # NoNext
               THEN /\ Resume(c, [c EXCEPT !.offset = NextUrl(c, data)])
                    /\ UNCHANGED apiResp
               ELSE /\ Finish(c)
                    /\ Respond(ApiJson("exists", 200, ExistsBody(FALSE)))
    /\ UNCHANGED <<playlists, minted>>
    /\ UNCHANGED storeVars
    /\ UNCHANGED <<authVars, clock>>

\* prisma.userPlaylist.create for the playlist found by name
ExistsPersist(c) ==
    /\ c.ep = "exists" /\ c.pc = "persist"
    /\ Finish(c)
    /\ IF UniqueViolation(userPlaylist, c.user)
       THEN /\ Respond(ApiJson("exists", 500, ErrorBody("Error interno")))
            /\ UNCHANGED userPlaylist
       ELSE /\ InsertUserPlaylist(c.user, c.pid)
            /\ Respond(ApiJson("exists", 200, ExistsBody(TRUE)))
    /\ UNCHANGED <<discoveryLog, card, dailyCard, fkEnforced, cuids>>
    /\ UNCHANGED <<playlists, minted>>
    /\ UNCHANGED <<authVars, clock>>

(***************************************************************************)
(* Specifications of the playlist endpoints.  SpecPlaylist: up to MaxCalls *)
(* create and exists requests of one user overlap.  SpecPlaylistSeq: the   *)
(* requests of all users, to the three endpoints, run one at a time.       *)
(***************************************************************************)
InitPlaylist ==
    /\ cookies = [spotify_state |-> Absent, refresh_token |-> Absent]
    /\ inflight = EmptyBag
    /\ lastResp = NoResp
    /\ codeState = [c \in Codes |-> "unissued"]
    /\ validRefresh = {}
    /\ validAccess = {}
    /\ issued = 0
    /\ spent = {}
    /\ userPlaylist = {}
    /\ discoveryLog = {}
    /\ card = {}
    /\ dailyCard = {}
    /\ fkEnforced = FALSE
    /\ cuids = 0
    /\ clock = 0
    /\ calls = EmptyBag
    /\ apiResp = NoApiResp
    /\ playlists = {}
    /\ minted = 0

PlaylistStep(limit, users) ==
    \/ \E a \in AuthHeaders(users) : \E me \in MeReplies(a) : CreateBegin(limit, a, me)
    \/ \E c \in Suspended : \E ok \in BOOLEAN : CreateUpstream(c, ok)
    \/ \E c \in Suspended : CreatePersist(c)
    \/ \E a \in AuthHeaders(users) : \E me \in MeReplies(a) : ExistsBegin(limit, a, me)
    \/ \E c \in Suspended : \E st \in CheckStatuses(c.pid) : ExistsCheck(c, st)
    \/ \E c \in Suspended : ExistsDelete(c)
    \/ \E c \in Suspended : \E ok \in BOOLEAN : ExistsSearch(c, ok)
    \/ \E c \in Suspended : ExistsPersist(c)
    \/ \E u \in users : \E n \in PlaylistNames : UserMakesPlaylist(u, n)
    \/ \E p \in playlists : UserRemovesPlaylist(p)

AddStep(limit, users) ==
    \/ \E a \in AuthHeaders(users) : \E t \in TrackUris \cup {Absent} :
          \E me \in MeReplies(a) : AddBegin(limit, a, t, me)
    \/ \E c \in Suspended : \E ok \in BOOLEAN : AddFinish(c, ok)

\* the user whose requests overlap in SpecPlaylist
Caller == CHOOSE u \in Users : TRUE

NextPlaylist == PlaylistStep(MaxCalls, {Caller})
NextPlaylistSeq == PlaylistStep(1, Users) \/ AddStep(1, Users)

SpecPlaylist == InitPlaylist /\ [][NextPlaylist]_vars
SpecPlaylistSeq == InitPlaylist /\ [][NextPlaylistSeq]_vars

TypeOKPlaylist ==
    /\ BagCardinality(calls) <= MaxCalls
    /\ minted \in 0..MaxPlaylists
    /\ \A p \in playlists : p.id \in 1..minted /\ p.owner \in Users
    /\ \A r \in userPlaylist : r.userId \in Users

(***************************************************************************)
(* Properties of the playlist endpoints.                                   *)
(***************************************************************************)
RowsOf(table, u) == {r \in table : r.userId = u}

\* C11: in every reachable state, whatever the interleaving of create and
\* exists requests, the store holds at most one UserPlaylist row per userId.
C11_OneRowPerUser ==
    \A u \in Users : Cardinality(RowsOf(userPlaylist, u)) <= 1

\* a handler is about to insert a row for a user who already has one
C11_Witness ==
    \E c \in Suspended :
        /\ c.pc = "persist"
        /\ Cardinality(RowsOf(userPlaylist, c.user)) = 1

\* the playlist is there upstream and no stored row refers to it
Orphaned(table, pid) ==
    /\ \E p \in playlists : p.id = pid
    /\ \A r \in table : r.playlistId # pid

\* C12: overlapping first-time create requests of one user, each with its own
\* new upstream playlist, leave exactly one row for the user: the first
\* insert is stored and answered with its playlist id, every later one is
\* refused, answered 500 and leaves the stored row as it is.
C12_ConcurrentCreate ==
    [][\A c \in Suspended :
          (c.ep = "create" /\ c.pc = "persist" /\ CreatePersist(c)) =>
             /\ Cardinality(RowsOf(userPlaylist', c.user)) = 1
             /\ IF RowsOf(userPlaylist, c.user) = {}
                THEN /\ FindUnique(userPlaylist', c.user).playlistId = c.pid
                     /\ apiResp' = ApiJson("create", 200, PlaylistIdBody(c.pid))
                ELSE /\ userPlaylist' = userPlaylist
                     /\ apiResp' = ApiJson("create", 500,
                                           ErrorBody("Error creando playlist"))]_vars

\* the winner's row is stored and answered; the loser, with its own upstream
\* playlist that no row refers to, is still to insert
C12_Witness ==
    \E d \in Suspended :
        /\ d.ep = "create" /\ d.pc = "persist"
        /\ Orphaned(userPlaylist, d.pid)
        /\ \E r \in userPlaylist :
              /\ r.userId = d.user
              /\ \E p \in playlists : p.id = r.playlistId /\ p.id # d.pid
              /\ apiResp = ApiJson("create", 200, PlaylistIdBody(r.playlistId))

\* the row of user u refers to playlist pid
Mapped(table, u, pid) == \E r \in table : r.userId = u /\ r.playlistId = pid

\* C13: create requests that do not overlap are idempotent.  A request of a
\* user with a stored row is answered with that row's playlist id, makes no
\* upstream call and writes nothing; a request of a user with no row goes on
\* to the upstream create, and when the new playlist arrives it is stored
\* as the user's row and its id is the answer.
C13_SequentialCreate ==
    [][/\ \A a \in AuthHeaders(Users) : \A me \in MeReplies(a) :
            (me \in Users /\ CreateBegin(1, a, me)) =>
               IF RowsOf(userPlaylist, me) # {}
               THEN /\ apiResp' = ApiJson("create", 200,
                         PlaylistIdBody(FindUnique(userPlaylist, me).playlistId))
                    /\ UNCHANGED <<calls, playlists, minted>>
                    /\ UNCHANGED storeVars
               ELSE /\ calls' = SetToBag({Call("create", "create", me, 0, 0, Absent)})
                    /\ UNCHANGED <<apiResp, playlists, minted>>
                    /\ UNCHANGED storeVars
       /\ \A c \in Suspended :
            (c.ep = "create" /\ c.pc = "create" /\ CreateUpstream(c, TRUE)) =>
               /\ playlists' = playlists \cup
                                 {NewPlaylist(minted + 1, c.user, ManagedName)}
               /\ \A p \in playlists : p.id # minted + 1
               /\ calls' = SetToBag({[c EXCEPT !.pc = "persist", !.pid = minted + 1]})
               /\ UNCHANGED storeVars
       /\ \A c \in Suspended :
            (c.ep = "create" /\ c.pc = "persist" /\ CreatePersist(c)) =>
               /\ RowsOf(userPlaylist, c.user) = {}
               /\ RowsOf(userPlaylist', c.user) # {}
               /\ Mapped(userPlaylist', c.user, c.pid)
               /\ \A r \in userPlaylist : r \in userPlaylist'
               /\ apiResp' = ApiJson("create", 200, PlaylistIdBody(c.pid))
               /\ calls' = EmptyBag
               /\ UNCHANGED <<playlists, minted>>]_vars

\* a create request was answered from the stored row after an item had
\* been added to the playlist the row refers to
C13_Witness ==
    /\ calls = EmptyBag
    /\ \E r \in userPlaylist : \E p \in playlists :
          /\ p.id = r.playlistId
          /\ Len(p.tracks) > 0
          /\ apiResp = ApiJson("create", 200, PlaylistIdBody(p.id))

\* the user has an upstream playlist with the managed name
HasManaged(u) == \E p \in playlists : p.owner = u /\ NameMatches(p.name)

\* C14: a create request that finds no stored row for a user who already
\* has an upstream playlist of the managed name does not go on to create a
\* second upstream playlist (it adopts the existing one).
C14_Original ==
    [][\A a \in AuthHeaders(Users) : \A me \in MeReplies(a) :
          (/\ me \in Users
           /\ RowsOf(userPlaylist, me) = {}
           /\ HasManaged(me)
           /\ CreateBegin(1, a, me)) =>
              \A d \in BagToSet(calls') : ~(d.ep = "create" /\ d.pc = "create")]_vars

PlaylistThere(pid) == \E p \in playlists : p.id = pid

\* C15: an exists request whose stored row refers to a playlist the upstream
\* no longer has deletes the row once the check is answered and goes on to
\* the name search; whenever the request is answered, a row of the user
\* refers to a playlist the handler has just seen upstream.
C15_RobustPath ==
    [][\A c \in Suspended : c.ep = "exists" =>
          /\ \A st \in CheckStatuses(c.pid) :
                (c.pc = "check" /\ st # 0 /\ ExistsCheck(c, st)) =>
                   IF PlaylistThere(c.pid) /\ st = 200
                   THEN /\ apiResp' = ApiJson("exists", 200, ExistsBody(TRUE))
                        /\ Mapped(userPlaylist', c.user, c.pid)
                        /\ calls' = EmptyBag
                   ELSE /\ calls' = SetToBag({[c EXCEPT !.pc = "delete"]})
                        /\ UNCHANGED apiResp
          /\ (c.pc = "delete" /\ ExistsDelete(c)) =>
                /\ RowsOf(userPlaylist', c.user) = {}
                /\ \A r \in userPlaylist : r.userId # c.user => r \in userPlaylist'
                /\ calls' = SetToBag({[c EXCEPT !.pc = "search"]})
          /\ (c.pc = "search" /\ ExistsSearch(c, TRUE)) =>
                /\ apiResp' # apiResp =>
                      /\ apiResp' = ApiJson("exists", 200, ExistsBody(FALSE))
                      /\ RowsOf(userPlaylist', c.user) = {}
                /\ \A d \in BagToSet(calls') : d.pc = "persist" =>
                      \E p \in playlists :
                          p.id = d.pid /\ p.owner = c.user /\ p.name = ManagedName
          /\ (c.pc = "persist" /\ ExistsPersist(c)) =>
                /\ apiResp' = ApiJson("exists", 200, ExistsBody(TRUE))
                /\ RowsOf(userPlaylist', c.user) =
                      {r \in userPlaylist' : r.userId = c.user /\ r.playlistId = c.pid}
                /\ Mapped(userPlaylist', c.user, c.pid)]_vars

\* the stale row is gone, the handler is in the name search, and the user
\* has another playlist of the managed name to be found
C15_Witness ==
    \E c \in Suspended :
        /\ c.ep = "exists" /\ c.pc = "search"
        /\ c.pid # 0 /\ ~PlaylistThere(c.pid)
        /\ RowsOf(userPlaylist, c.user) = {}
        /\ HasManaged(c.user)

\* C16: an add request, with a token and a uri, of a user with no stored row
\* is answered 404; no add-item call is issued, no upstream playlist is
\* made and the store is left as it is.
C16_AddWithoutMapping ==
    [][\A a \in AuthHeaders(Users) : \A t \in TrackUris : \A me \in MeReplies(a) :
          (/\ me \in Users
           /\ RowsOf(userPlaylist, me) = {}
           /\ AddBegin(1, a, t, me)) =>
              /\ apiResp' = ApiJson("add", 404, ErrorBody("Playlist no encontrada"))
              /\ UNCHANGED <<calls, playlists, minted>>
              /\ UNCHANGED storeVars]_vars

\* the 404 was given to a user who has playlists upstream but no row,
\* while another user has a row
C16_Witness ==
    /\ apiResp = ApiJson("add", 404, ErrorBody("Playlist no encontrada"))
    /\ \E u \in Users :
          /\ RowsOf(userPlaylist, u) = {}
          /\ HasManaged(u)
          /\ userPlaylist # {}

(***************************************************************************)
(* The discovery endpoints: POST /api/discovery and /mark-as-added.  The   *)
(* userId comes from the request body; each handler is split between its   *)
(* findFirst and the write that follows it.                                *)
(***************************************************************************)
CardTitles == {"T1", "T2"}

\* req.body of POST /api/discovery; the JSON booleans of added are "true" and "false"
RecordBodies(users) ==
    [userId : users \cup {Absent}, cardTitle : CardTitles \cup {Absent},
     trackUri : TrackUris \cup {Absent}, added : {"true", "false", Absent}]

\* req.body of POST /api/discovery/mark-as-added
MarkBodies(users) == [userId : users \cup {Absent}, trackUri : TrackUris \cup {Absent}]

\* added ?? false
OrFalse(added) == IF added = Absent THEN FALSE ELSE added = "true"

\* where: { trackUri } alone
FindFirst_AnyUser(table, u, t) == {r \in table : r.trackUri = t}

\* prisma.discoveryLog.findFirst({ where: { userId, trackUri } }): the rows it may return
FindFirst(table, u, t) == {r \in table : r.userId = u /\ r.trackUri = t}

\* the userId relation to UserPlaylist refuses an entry of a user with no row there
RelationViolation(u) == fkEnforced /\ RowsOf(userPlaylist, u) = {}

AlreadyBody(id) == [NoBody EXCEPT !.shape = "message", !.message = "Ya registrado",
                                  !.id = id]
EntryBody(row) == [NoBody EXCEPT !.shape = "entry", !.entry = row]

\* if (exists): the request ends with the stored entry's id
AlreadyRecorded(found) == found # {}

\* up to the findFirst: 400, the stored entry's id, or the insert
RecordBegin(limit, b) ==
    /\ BagCardinality(calls) < limit
    /\ IF ~Truthy(b.userId) \/ ~Truthy(b.cardTitle) \/ ~Truthy(b.trackUri)
       THEN /\ Respond(ApiJson("discovery", 400, ErrorBody("Faltan datos obligatorios")))
            /\ UNCHANGED calls
       ELSE LET found == FindFirst(discoveryLog, b.userId, b.trackUri) IN
            IF AlreadyRecorded(found)
            THEN /\ \E exists \in found :
                      Respond(ApiJson("discovery", 200, AlreadyBody(exists.id)))
                 /\ UNCHANGED calls
            ELSE /\ Suspend([Call("discovery", "insert", b.userId, 0, 0, b.trackUri)
                               EXCEPT !.title = b.cardTitle, !.added = OrFalse(b.added)])
                 /\ UNCHANGED apiResp
    /\ UNCHANGED <<playlists, minted>>
    /\ UNCHANGED storeVars
    /\ UNCHANGED <<authVars, clock>>

\* prisma.discoveryLog.create({ data: { userId, cardTitle, trackUri, added } })
RecordInsert(c) ==
    /\ c.ep = "discovery" /\ c.pc = "insert"
    /\ Finish(c)
    /\ IF RelationViolation(c.user)
       THEN /\ Respond(ApiJson("discovery", 500, ErrorBody("Error interno al registrar")))
            /\ UNCHANGED <<discoveryLog, cuids>>
       ELSE LET log == [id |-> cuids + 1, userId |-> c.user, cardTitle |-> c.title,
                        trackUri |-> c.uri, added |-> c.added, createdAt |-> clock]
            IN /\ cuids < MaxRows
               /\ cuids' = cuids + 1
               /\ discoveryLog' = discoveryLog \cup {log}
               /\ Respond(ApiJson("discovery", 200, EntryBody(log)))
    /\ UNCHANGED <<userPlaylist, card, dailyCard, fkEnforced>>
    /\ UNCHANGED <<playlists, minted>>
    /\ UNCHANGED <<authVars, clock>>

MarkedBody == [NoBody EXCEPT !.shape = "message",
                             !.message = "Ya estaba marcado como añadido"]

\* if (!existing.added): the entry is to be updated
NeedsUpdate_Always(existing) == TRUE

NeedsUpdate(existing) == ~existing.added

\* up to the findFirst: 400, 404, the "already marked" answer, or the update
MarkBegin(limit, b) ==
    /\ BagCardinality(calls) < limit
    /\ IF ~Truthy(b.userId) \/ ~Truthy(b.trackUri)
       THEN /\ Respond(ApiJson("mark", 400, ErrorBody("Faltan datos obligatorios")))
            /\ UNCHANGED calls
       ELSE LET found == FindFirst(discoveryLog, b.userId, b.trackUri) IN
            IF found = {}
            THEN /\ Respond(ApiJson("mark", 404, ErrorBody("No se encontró el DiscoveryLog")))
                 /\ UNCHANGED calls
            ELSE \E existing \in found :
                    IF NeedsUpdate(existing)
                    THEN /\ Suspend([Call("mark", "update", b.userId, 0, 0, b.trackUri)
                                       EXCEPT !.entryId = existing.id])
                         /\ UNCHANGED apiResp
                    ELSE /\ Respond(ApiJson("mark", 200, MarkedBody))
                         /\ UNCHANGED calls
    /\ UNCHANGED <<playlists, minted>>
    /\ UNCHANGED storeVars
    /\ UNCHANGED <<authVars, clock>>

\* data: { added: !added }
UpdateData_Toggle(old) == [old EXCEPT !.added = ~old.added]

\* data: { added: true }
UpdateData(old) == [old EXCEPT !.added = TRUE]

\* prisma.discoveryLog.update({ where: { id }, data: { added: true } });
\* throws when the row is no longer there
MarkUpdate(c) ==
    /\ c.ep = "mark" /\ c.pc = "update"
    /\ Finish(c)
    /\ IF \E r \in discoveryLog : r.id = c.entryId
       THEN LET old == CHOOSE r \in discoveryLog : r.id = c.entryId
                updated == UpdateData(old)
            IN /\ discoveryLog' = (discoveryLog \ {old}) \cup {updated}
               /\ Respond(ApiJson("mark", 200, EntryBody(updated)))
       ELSE /\ Respond(ApiJson("mark", 500, ErrorBody("Error interno")))
            /\ UNCHANGED discoveryLog
    /\ UNCHANGED <<userPlaylist, card, dailyCard, fkEnforced, cuids>>
    /\ UNCHANGED <<playlists, minted>>
    /\ UNCHANGED <<authVars, clock>>

(***************************************************************************)
(* Specifications of the discovery endpoints.  The database has the        *)
(* schema's userId relations or, as built by the migrations, lacks them;   *)
(* the caller of SpecPlaylist has made a playlist or has not.              *)
(* SpecDiscovery: up to MaxCalls requests for one user overlap.            *)
(* SpecDiscoverySeq: the requests for all users run one at a time.         *)
(***************************************************************************)
\* the store with the Card table holding cards
InitWith(cards) ==
    /\ cookies = [spotify_state |-> Absent, refresh_token |-> Absent]
    /\ inflight = EmptyBag
    /\ lastResp = NoResp
    /\ codeState = [c \in Codes |-> "unissued"]
    /\ validRefresh = {}
    /\ validAccess = {}
    /\ issued = 0
    /\ spent = {}
    /\ \E made \in BOOLEAN :
          /\ playlists = IF made THEN {NewPlaylist(1, Caller, ManagedName)} ELSE {}
          /\ minted = IF made THEN 1 ELSE 0
          /\ userPlaylist = IF made
                            THEN {[id |-> 1, userId |-> Caller, playlistId |-> 1]}
                            ELSE {}
    /\ discoveryLog = {}
    /\ card = cards
    /\ dailyCard = {}
    /\ fkEnforced \in BOOLEAN
    /\ cuids = 0
    /\ clock = 0
    /\ calls = EmptyBag
    /\ apiResp = NoApiResp

InitDiscovery == InitWith({})

DiscoveryStep(limit, users) ==
    \/ \E b \in RecordBodies(users) : RecordBegin(limit, b)
    \/ \E c \in Suspended : RecordInsert(c)
    \/ \E b \in MarkBodies(users) : MarkBegin(limit, b)
    \/ \E c \in Suspended : MarkUpdate(c)

NextDiscovery == DiscoveryStep(MaxCalls, {Caller})
NextDiscoverySeq == DiscoveryStep(1, Users)

SpecDiscovery == InitDiscovery /\ [][NextDiscovery]_vars
SpecDiscoverySeq == InitDiscovery /\ [][NextDiscoverySeq]_vars

TypeOKDiscovery ==
    /\ BagCardinality(calls) <= MaxCalls
    /\ cuids \in 0..MaxRows
    /\ \A r \in discoveryLog :
          /\ r.id \in 1..cuids
          /\ r.userId \in Users /\ r.trackUri \in TrackUris
          /\ r.cardTitle \in CardTitles /\ r.added \in BOOLEAN

(***************************************************************************)
(* Properties of the discovery endpoints.                                  *)
(***************************************************************************)
\* C17: record requests that do not overlap are idempotent.  A request for a
\* pair (userId, trackUri) that has an entry is answered with that entry's id
\* and writes nothing, whatever cardTitle and added it carries; a request
\* for a pair with no entry goes on to the insert, which leaves one entry
\* of the pair, and that entry is the answer.
C17_Original ==
    [][/\ \A b \in RecordBodies(Users) :
            (/\ Truthy(b.userId) /\ Truthy(b.cardTitle) /\ Truthy(b.trackUri)
             /\ RecordBegin(1, b)) =>
               LET found == FindFirst(discoveryLog, b.userId, b.trackUri) IN
               IF found # {}
               THEN /\ \E e \in found :
                         /\ found = {e}
                         /\ apiResp' = ApiJson("discovery", 200, AlreadyBody(e.id))
                    /\ UNCHANGED <<calls, playlists, minted>>
                    /\ UNCHANGED storeVars
               ELSE /\ BagCardinality(calls') = 1
                    /\ \A d \in BagToSet(calls') :
                          /\ d.ep = "discovery" /\ d.pc = "insert"
                          /\ d.user = b.userId /\ d.uri = b.trackUri
                          /\ d.title = b.cardTitle /\ d.added = (b.added = "true")
                    /\ UNCHANGED apiResp
                    /\ UNCHANGED storeVars
       /\ \A c \in Suspended :
            (c.ep = "discovery" /\ c.pc = "insert" /\ RecordInsert(c)) =>
               LET log == apiResp'.body.entry IN
               /\ apiResp' = ApiJson("discovery", 200, EntryBody(log))
               /\ \A r \in discoveryLog : r.id # log.id
               /\ discoveryLog' = discoveryLog \cup {log}
               /\ FindFirst(discoveryLog', c.user, c.uri) = {log}
               /\ log.userId = c.user /\ log.trackUri = c.uri
               /\ log.cardTitle = c.title /\ log.added = c.added]_vars

\* C18: in every reachable state, overlapping record requests included, the
\* store holds at most one DiscoveryLog entry per pair (userId, trackUri).
C18_Original ==
    \A u \in Users : \A t \in TrackUris :
        Cardinality(FindFirst(discoveryLog, u, t)) <= 1

\* C19: a mark-as-added request for a pair (userId, trackUri) that has no
\* entry is answered 404 and leaves the store as it is.
C19_MarkNotFound ==
    [][\A b \in MarkBodies(Users) :
          (/\ Truthy(b.userId) /\ Truthy(b.trackUri)
           /\ \A r \in discoveryLog : ~(r.userId = b.userId /\ r.trackUri = b.trackUri)
           /\ MarkBegin(1, b)) =>
              /\ apiResp' = ApiJson("mark", 404,
                                    ErrorBody("No se encontró el DiscoveryLog"))
              /\ UNCHANGED <<calls, playlists, minted>>
              /\ UNCHANGED storeVars]_vars

\* the 404 was given while another user has an entry for the track
C19_Witness ==
    /\ apiResp = ApiJson("mark", 404, ErrorBody("No se encontró el DiscoveryLog"))
    /\ \E u \in Users : \E t \in TrackUris :
          /\ \A r \in discoveryLog : ~(r.userId = u /\ r.trackUri = t)
          /\ \E r \in discoveryLog : r.trackUri = t

\* C20: a mark-as-added request for an entry whose added is true is answered
\* "already marked", writes nothing and leaves added true; for an entry whose
\* added is false the update sets added to true and changes no other field
\* and no other entry.
C20_MarkAdded ==
    [][/\ \A b \in MarkBodies(Users) :
            (Truthy(b.userId) /\ Truthy(b.trackUri) /\ MarkBegin(1, b)) =>
               \A e \in FindFirst(discoveryLog, b.userId, b.trackUri) :
                  IF e.added
                  THEN /\ apiResp' = ApiJson("mark", 200, MarkedBody)
                       /\ e \in discoveryLog'
                       /\ UNCHANGED <<calls, playlists, minted>>
                       /\ UNCHANGED storeVars
                  ELSE /\ \A d \in BagToSet(calls') :
                             d.ep = "mark" /\ d.pc = "update" /\ d.entryId = e.id
                       /\ BagCardinality(calls') = 1
                       /\ UNCHANGED apiResp
                       /\ UNCHANGED storeVars
       /\ \A c \in Suspended :
            (c.ep = "mark" /\ c.pc = "update" /\ MarkUpdate(c)) =>
               \E e \in discoveryLog :
                  /\ e.id = c.entryId
                  /\ discoveryLog' = (discoveryLog \ {e}) \cup {[e EXCEPT !.added = TRUE]}
                  /\ apiResp' = ApiJson("mark", 200, EntryBody([e EXCEPT !.added = TRUE]))
                  /\ UNCHANGED <<userPlaylist, card, dailyCard>>]_vars

\* an entry has just been marked while another entry stays unmarked
C20_Witness ==
    \E e \in discoveryLog : \E o \in discoveryLog :
        /\ e.added /\ ~o.added
        /\ apiResp = ApiJson("mark", 200, EntryBody(e))

\* C21: added is monotonic.  Whatever record and mark-as-added requests do,
\* and however they overlap, an entry whose added is true is still there
\* with added true after every step.
C21_AddedMonotonic ==
    [][\A e \in discoveryLog :
          e.added => \E r \in discoveryLog' : r.id = e.id /\ r.added]_vars

\* an entry is marked while a mark-as-added request that read it unmarked
\* is still to write its update
C21_Witness ==
    \E c \in Suspended : \E e \in discoveryLog :
        /\ c.ep = "mark" /\ c.pc = "update"
        /\ c.entryId = e.id
        /\ e.added

\* ---------------------------------------------------------------------
\* Time.  The clock counts ticks; a UTC day is TicksPerDay ticks long and
\* the model watches MaxDays days.
\* ---------------------------------------------------------------------

TicksPerDay == 2
MaxDays == 2

\* new Date(Date.UTC(year, month, date)): the first instant of t's UTC day
StartOfDay(t) == t - (t % TicksPerDay)

\* new Date(start.getTime() + 24 * 60 * 60 * 1000)
EndOfDay(start) == start + TicksPerDay

\* d ticks pass
Advance(d) ==
    /\ clock + d < MaxDays * TicksPerDay
    /\ clock' = clock + d
    /\ UNCHANGED <<authVars, storeVars, apiVars>>

\* ---------------------------------------------------------------------
\* GET /api/discovery/today
\* ---------------------------------------------------------------------

\* discoveries of the first two cards of the seed
TodayBodies(users) ==
    [userId : users, cardTitle : {"T1"}, trackUri : {"t1", "t2"}, added : {Absent}]
TodayQueries(users) == [userId : users \cup {Absent}]

\* res.sendStatus(code): the status with its reason phrase as the body
StatusBody(phrase) == [NoBody EXCEPT !.shape = "text", !.message = phrase]

\* where: { userId, createdAt: { gte: start, lt: end } }
InWindow(table, u, start) ==
    {r \in RowsOf(table, u) : start <= r.createdAt /\ r.createdAt < EndOfDay(start)}

\* a findFirst without orderBy
Earliest_Any(rows) == rows

\* orderBy: { createdAt: "asc" }: the rows findFirst may return
Earliest(rows) == {r \in rows : \A o \in rows : r.createdAt <= o.createdAt}

\* the handler up to its await: the userId test and the bounds of today
TodayBegin(limit, q) ==
    /\ BagCardinality(calls) < limit
    /\ IF ~Truthy(q.userId)
       THEN /\ Respond(ApiJson("today", 400, ErrorBody("Falta userId")))
            /\ UNCHANGED calls
       ELSE /\ Suspend([Call("today", "find", q.userId, 0, 0, Absent)
                          EXCEPT !.start = StartOfDay(clock)])
            /\ UNCHANGED apiResp
    /\ UNCHANGED <<playlists, minted>>
    /\ UNCHANGED storeVars
    /\ UNCHANGED <<authVars, clock>>

\* prisma.discoveryLog.findFirst answers, and the rest of the handler
TodayFind(c) ==
    /\ c.ep = "today" /\ c.pc = "find"
    /\ Finish(c)
    /\ LET found == Earliest(InWindow(discoveryLog, c.user, c.start)) IN
       IF found = {}
       THEN Respond(ApiJson("today", 404, StatusBody("Not Found")))
       ELSE \E log \in found : Respond(ApiJson("today", 200, EntryBody(log)))
    /\ UNCHANGED <<playlists, minted>>
    /\ UNCHANGED storeVars
    /\ UNCHANGED <<authVars, clock>>

\* prisma.discoveryLog.findFirst rejects.  The handler has no try/catch,
\* so the rejection leaves it: the framework either drops it, and the
\* request is never answered (status 0), or hands it to its default
\* error handler, which answers 500.
TodayFault(c) ==
    /\ c.ep = "today" /\ c.pc = "find"
    /\ Finish(c)
    /\ \/ Respond(ApiJson("today", 0, NoBody))
       \/ Respond(ApiJson("today", 500, StatusBody("Internal Server Error")))
    /\ UNCHANGED <<playlists, minted>>
    /\ UNCHANGED storeVars
    /\ UNCHANGED <<authVars, clock>>

NextToday ==
    \/ \E b \in TodayBodies(Users) : RecordBegin(1, b)
    \/ \E c \in Suspended : RecordInsert(c)
    \/ \E q \in TodayQueries(Users) : TodayBegin(1, q)
    \/ \E c \in Suspended : TodayFind(c)
    \/ \E c \in Suspended : TodayFault(c)
    \/ Advance(1)

\* the migrated database (no userId relation), the caller's playlist saved
InitToday == InitDiscovery /\ ~fkEnforced /\ userPlaylist # {}

SpecToday == InitToday /\ [][NextToday]_vars

\* C22: today(userId) takes today from the clock of the request, answers
\* with an entry of that user created in [start of today, start of
\* tomorrow) that has the smallest createdAt among those, answers 404
\* exactly when the user has no entry created in that interval, and
\* writes nothing; no other entry enters into the answer.
C22_Today ==
    [][/\ \A q \in TodayQueries(Users) :
            (Truthy(q.userId) /\ TodayBegin(1, q)) =>
               \A d \in BagToSet(calls') :
                  /\ d.user = q.userId
                  /\ d.start <= clock /\ clock < d.start + TicksPerDay
                  /\ d.start % TicksPerDay = 0
       /\ \A c \in Suspended :
            (c.ep = "today" /\ TodayFind(c)) =>
               LET mine == {r \in discoveryLog :
                              /\ r.userId = c.user
                              /\ c.start <= r.createdAt
                              /\ r.createdAt < c.start + TicksPerDay}
               IN /\ (apiResp'.status = 404) <=> (mine = {})
                  /\ mine # {} =>
                        /\ apiResp'.status = 200
                        /\ apiResp'.body.shape = "entry"
                        /\ apiResp'.body.entry \in mine
                        /\ \A o \in mine :
                              apiResp'.body.entry.createdAt <= o.createdAt
                  /\ UNCHANGED storeVars]_vars

\* today's answer is the earlier of the user's two entries of the second
\* day, while the store also holds an entry of the other user
C22_Witness ==
    /\ apiResp.ep = "today" /\ apiResp.status = 200
    /\ \E r \in discoveryLog :
          /\ r.userId = apiResp.body.entry.userId
          /\ r.createdAt > apiResp.body.entry.createdAt
          /\ StartOfDay(r.createdAt) = StartOfDay(apiResp.body.entry.createdAt)
          /\ StartOfDay(r.createdAt) = StartOfDay(clock)

\* ---------------------------------------------------------------------
\* Cards: POST /api/cards/seed and GET /api/cards/daily.  A Card row is
\* its id, its uri and its title (standing for the other columns); a
\* DailyCard row is its (userId, cardId, date), on which the table has a
\* unique index.
\* ---------------------------------------------------------------------

\* the fixed cards of the seed, in the order of the loop
dummyCards ==
    << [uri |-> "t1", title |-> "T1"], [uri |-> "t2", title |-> "T2"],
       [uri |-> "t3", title |-> "T3"], [uri |-> "t4", title |-> "T4"] >>

\* upsert whose update writes the seed's fields
Upsert_Overwrite(table, data) ==
    IF \E k \in table : k.uri = data.uri
    THEN {IF k.uri = data.uri THEN [k EXCEPT !.title = data.title] ELSE k : k \in table}
    ELSE table \cup {[id |-> FreshId(table), uri |-> data.uri, title |-> data.title]}

\* prisma.card.upsert({ where: { uri }, update: {}, create: card })
Upsert(table, data) ==
    IF \E k \in table : k.uri = data.uri
    THEN table
    ELSE table \cup {[id |-> FreshId(table), uri |-> data.uri, title |-> data.title]}

\* the handler up to the first upsert of the loop
SeedBegin(limit) ==
    /\ BagCardinality(calls) < limit
    /\ Suspend(Call("seed", "upsert", Absent, 0, 1, Absent))
    /\ UNCHANGED <<apiResp, playlists, minted>>
    /\ UNCHANGED storeVars
    /\ UNCHANGED <<authVars, clock>>

\* the upsert of card number c.offset answers; the loop goes on or ends
SeedUpsert(c) ==
    /\ c.ep = "seed"
    /\ card' = Upsert(card, dummyCards[c.offset])
    /\ IF c.offset < Len(dummyCards)
       THEN /\ Resume(c, [c EXCEPT !.offset = c.offset + 1])
            /\ UNCHANGED apiResp
       ELSE /\ Finish(c)
            /\ Respond(ApiJson("seed", 200, SuccessBody))
    /\ UNCHANGED <<userPlaylist, discoveryLog, dailyCard, fkEnforced, cuids>>
    /\ UNCHANGED <<playlists, minted>>
    /\ UNCHANGED <<authVars, clock>>

\* the store rejects the upsert: the catch of the handler
SeedFail(c) ==
    /\ c.ep = "seed"
    /\ Finish(c)
    /\ Respond(ApiJson("seed", 500, ErrorBody("Error insertando cartas")))
    /\ UNCHANGED <<playlists, minted>>
    /\ UNCHANGED storeVars
    /\ UNCHANGED <<authVars, clock>>

\* a list that holds every card twice
CardsBody_Repeat(cards) ==
    [NoBody EXCEPT !.shape = "cards", !.cards = SetToBag(cards) (+) SetToBag(cards)]

\* res.json(daily.map(d => d.card)): the list of cards, up to its order
CardsBody(cards) == [NoBody EXCEPT !.shape = "cards", !.cards = SetToBag(cards)]

\* a lookup that finds no assignment
Assigned_None(table, u, start) == {}

\* the DailyCard rows of u dated in [start, end)
Assigned(table, u, start) ==
    {r \in RowsOf(table, u) : start <= r.date /\ r.date < EndOfDay(start)}

\* a pool that keeps the cards the user has seen
Pool_All(table, seenUris) == table

\* where: { uri: { notIn: seenUris } }
Pool(table, seenUris) == {k \in table : k.uri \notin seenUris}

\* the candidates, not cut
Selected_All(candidates) == {candidates}

\* candidates.sort(() => 0.5 - Math.random()).slice(0, 3): the first three
\* of some order of the candidates
Selected(candidates) ==
    IF Cardinality(candidates) <= 3
    THEN {candidates}
    ELSE {sel \in SUBSET candidates : Cardinality(sel) = 3}

\* the handler up to its first await: the userId test, the bounds of today
DailyBegin(limit, q) ==
    /\ BagCardinality(calls) < limit
    /\ IF ~Truthy(q.userId)
       THEN /\ Respond(ApiJson("daily", 400, ErrorBody("Falta userId")))
            /\ UNCHANGED calls
       ELSE /\ Suspend([Call("daily", "assigned", q.userId, 0, 0, Absent)
                          EXCEPT !.start = StartOfDay(clock)])
            /\ UNCHANGED apiResp
    /\ UNCHANGED <<playlists, minted>>
    /\ UNCHANGED storeVars
    /\ UNCHANGED <<authVars, clock>>

\* prisma.dailyCard.findMany({ where: { userId, date }, include: { card } })
\* answers: today's cards, when there are any, are the response
DailyAssigned(c) ==
    /\ c.ep = "daily" /\ c.pc = "assigned"
    /\ LET daily == Assigned(dailyCard, c.user, c.start) IN
       IF daily # {}
       THEN /\ Finish(c)
            /\ Respond(ApiJson("daily", 200,
                   CardsBody({k \in card : \E d \in daily : d.cardId = k.id})))
       ELSE /\ Resume(c, [c EXCEPT !.pc = "history"])
            /\ UNCHANGED apiResp
    /\ UNCHANGED <<playlists, minted>>
    /\ UNCHANGED storeVars
    /\ UNCHANGED <<authVars, clock>>

\* prisma.discoveryLog.findMany({ where: { userId } }) answers: seenUris
DailyHistory(c) ==
    /\ c.ep = "daily" /\ c.pc = "history"
    /\ Resume(c, [c EXCEPT !.pc = "pool",
                           !.seen = {r.trackUri : r \in RowsOf(discoveryLog, c.user)}])
    /\ UNCHANGED <<apiResp, playlists, minted>>
    /\ UNCHANGED storeVars
    /\ UNCHANGED <<authVars, clock>>

\* prisma.card.findMany({ where: { uri: { notIn: seenUris } } }) answers:
\* a pool of three or more is shuffled and cut, a smaller one is dropped
DailyPool(c) ==
    /\ c.ep = "daily" /\ c.pc = "pool"
    /\ LET pool == Pool(card, c.seen) IN
       IF Cardinality(pool) >= 3
       THEN \E selected \in Selected(pool) :
               Resume(c, [c EXCEPT !.pc = "create", !.cands = selected])
       ELSE Resume(c, [c EXCEPT !.pc = "widen"])
    /\ UNCHANGED <<apiResp, playlists, minted>>
    /\ UNCHANGED storeVars
    /\ UNCHANGED <<authVars, clock>>

\* prisma.card.findMany() answers: every card is a candidate
DailyWiden(c) ==
    /\ c.ep = "daily" /\ c.pc = "widen"
    /\ \E selected \in Selected(card) :
          Resume(c, [c EXCEPT !.pc = "create", !.cands = selected])
    /\ UNCHANGED <<apiResp, playlists, minted>>
    /\ UNCHANGED storeVars
    /\ UNCHANGED <<authVars, clock>>

\* prisma.dailyCard.createMany answers: one statement, refused as a whole
\* when a row breaks the userId relation or the unique index
DailyCreate(c) ==
    /\ c.ep = "daily" /\ c.pc = "create"
    /\ Finish(c)
    /\ LET data == {[userId |-> c.user, cardId |-> k.id, date |-> c.start] :
                      k \in c.cands}
       IN IF data # {} /\ (RelationViolation(c.user) \/ data \cap dailyCard # {})
          THEN /\ Respond(ApiJson("daily", 500, ErrorBody("Error interno")))
               /\ UNCHANGED dailyCard
          ELSE /\ dailyCard' = dailyCard \cup data
               /\ Respond(ApiJson("daily", 200, CardsBody(c.cands)))
    /\ UNCHANGED <<userPlaylist, discoveryLog, card, fkEnforced, cuids>>
    /\ UNCHANGED <<playlists, minted>>
    /\ UNCHANGED <<authVars, clock>>

CardsStep(limit, users) ==
    \/ SeedBegin(limit)
    \/ \E c \in Suspended : SeedUpsert(c)
    \/ \E c \in Suspended : SeedFail(c)
    \/ \E q \in TodayQueries(users) : DailyBegin(limit, q)
    \/ \E c \in Suspended : DailyAssigned(c)
    \/ \E c \in Suspended : DailyHistory(c)
    \/ \E c \in Suspended : DailyPool(c)
    \/ \E c \in Suspended : DailyWiden(c)
    \/ \E c \in Suspended : DailyCreate(c)

NextCardsSeq ==
    \/ CardsStep(1, {Caller})
    \/ \E b \in TodayBodies({Caller}) : RecordBegin(1, b)
    \/ \E c \in Suspended : RecordInsert(c)
    \/ Advance(TicksPerDay)

\* either database, a caller who has not saved a playlist, no card yet
InitCards == InitDiscovery /\ userPlaylist = {}

SpecCardsSeq == InitCards /\ [][NextCardsSeq]_vars

History(u) == {r.trackUri : r \in {e \in discoveryLog : e.userId = u}}

C26_UnseenSelection ==
    [][/\ \A c \in Suspended :
            (/\ c.ep = "daily" /\ c.pc = "pool"
             /\ Cardinality({k \in card : k.uri \notin History(c.user)}) >= 3
             /\ DailyPool(c)) =>
               \E d \in BagToSet(calls') :
                  /\ d.pc = "create"
                  /\ d.cands \subseteq card
                  /\ Cardinality(d.cands) = 3
                  /\ Cardinality({k.id : k \in d.cands}) = 3
                  /\ Cardinality({k.uri : k \in d.cands}) = 3
                  /\ \A k \in d.cands : k.uri \notin History(c.user)
       /\ \A c \in Suspended :
            (c.ep = "daily" /\ c.pc = "history" /\ DailyHistory(c)) =>
               \E d \in BagToSet(calls') : d.pc = "pool" /\ d.seen = History(c.user)
       /\ \A c \in Suspended :
            (c.ep = "daily" /\ c.pc = "create" /\ DailyCreate(c)
                /\ apiResp'.status = 200) =>
               /\ apiResp'.body.cards = SetToBag(c.cands)
               /\ {r.cardId : r \in dailyCard' \ dailyCard} = {k.id : k \in c.cands}]_vars

\* three unseen cards are selected while the fourth card is in the history
C26_Witness ==
    \E c \in Suspended :
        /\ c.ep = "daily" /\ c.pc = "create"
        /\ Cardinality(c.cands) = 3
        /\ History(c.user) # {}
        /\ \A k \in c.cands : k.uri \notin History(c.user)
        /\ \E k \in card : k.uri \in History(c.user)

\* C27: when fewer than three cards have a uri outside the history, the
\* call goes on to read the whole card table and selects from it: three
\* cards of the table when it has three or more, else all of them,
\* pairwise distinct in id and uri, whether discovered before or not.
C27_Widened ==
    [][/\ \A c \in Suspended :
            (/\ c.ep = "daily" /\ c.pc = "pool"
             /\ Cardinality({k \in card : k.uri \notin c.seen}) < 3
             /\ DailyPool(c)) =>
               \E d \in BagToSet(calls') : d.pc = "widen" /\ d.cands = {}
       /\ \A c \in Suspended :
            (c.ep = "daily" /\ c.pc = "widen" /\ DailyWiden(c)) =>
               \E d \in BagToSet(calls') :
                  /\ d.pc = "create"
                  /\ d.cands \subseteq card
                  /\ Cardinality(d.cands) =
                        IF Cardinality(card) >= 3 THEN 3 ELSE Cardinality(card)
                  /\ Cardinality({k.id : k \in d.cands}) = Cardinality(d.cands)
                  /\ Cardinality({k.uri : k \in d.cands}) = Cardinality(d.cands)]_vars

\* the selection holds a discovered card while an unseen card is left out
C27_Witness ==
    \E c \in Suspended :
        /\ c.ep = "daily" /\ c.pc = "create"
        /\ Cardinality(c.cands) = 3
        /\ \E k \in c.cands : k.uri \in History(c.user)
        /\ \E k \in card \ c.cands : k.uri \notin History(c.user)

SpecCards == InitCards /\ [][CardsStep(MaxCalls, {Caller})]_vars

\* C24 as stated: in every reachable state, overlapping first requests of
\* a day included, a user has no DailyCard row of a UTC day or exactly 3.
C24_Original ==
    \A u \in Users : \A day \in 0..(MaxDays - 1) :
        Cardinality({r \in dailyCard :
                       r.userId = u /\ r.date = day * TicksPerDay}) \in {0, 3}

\* the Card table empty, or holding a card of an earlier seed list whose
\* uri is in today's list under another title
InitSeed ==
    \E cards \in {{}, {[id |-> 1, uri |-> "t2", title |-> "Old"]}} :
        InitWith(cards) /\ userPlaylist = {}

SpecSeed == InitSeed /\ [][CardsStep(1, {Caller})]_vars

\* C30: seeding is an idempotent upsert by uri.  Each upsert of the loop
\* inserts its card, with a new id, when no card has its uri and else
\* leaves the table as it is; no card is ever changed or removed and no
\* uri is ever on two cards; a seed that answers 200 leaves every uri of
\* the list in the table, and once they all are there a seed changes
\* nothing.
C30_SeedIdempotent ==
    [][/\ \A c \in Suspended :
            (c.ep = "seed" /\ SeedUpsert(c)) =>
               LET data == dummyCards[c.offset] IN
               /\ IF \E k \in card : k.uri = data.uri
                  THEN card' = card
                  ELSE \E k \in card' :
                          /\ card' = card \cup {k}
                          /\ k.uri = data.uri /\ k.title = data.title
                          /\ \A o \in card : o.id # k.id
               /\ apiResp'.ep = "seed" /\ apiResp'.status = 200 /\ calls' = EmptyBag =>
                     \A i \in 1..Len(dummyCards) :
                        \E k \in card' : k.uri = dummyCards[i].uri
       /\ card \subseteq card'
       /\ \A k1, k2 \in card' : k1.uri = k2.uri => k1 = k2
       /\ (\A i \in 1..Len(dummyCards) : \E k \in card : k.uri = dummyCards[i].uri)
             => card' = card]_vars

\* a seed reaches the last card of its list over a table that is full
\* already and holds the earlier card, still under its own title
C30_Witness ==
    /\ \E c \in Suspended : c.ep = "seed" /\ c.offset = Len(dummyCards)
    /\ Cardinality(card) = Len(dummyCards)
    /\ \E k \in card : k.uri = "t2" /\ k.title = "Old"

\* C28 as stated: every endpoint catches every failure of an outbound call
\* and answers the request with an error response.  Here: a step that
\* ends a request leaves a response, and a request whose store call was
\* rejected is answered with the JSON error body of its handler.
C28_Original ==
    [][/\ BagCardinality(calls') < BagCardinality(calls) => apiResp'.status # 0
       /\ \A c \in Suspended :
             (c.ep = "today" /\ TodayFault(c)) =>
                apiResp'.status >= 500 /\ apiResp'.body.shape = "error"]_vars

\* ---------------------------------------------------------------------
\* The token exchanges and /api/playlist/add side by side, for a caller
\* whose playlist is saved.
\* ---------------------------------------------------------------------

NextUpstream ==
    \/ \E n \in Nonces : Login(n)
    \/ \E c \in Codes : Authorize(c)
    \/ \E q \in Query : CallbackBegin(q)
    \/ \E req \in Pending : \E reply \in Replies(req) : CallbackFinish(req, reply)
    \/ RefreshBegin
    \/ \E req \in Pending : \E reply \in Replies(req) : RefreshFinish(req, reply)
    \/ AddStep(1, {Caller})

SpecUpstream == InitToday /\ [][NextUpstream]_vars

\* C29: no request retries an upstream call.  A step puts at most one call
\* in flight; the step in which the token endpoint's reply reaches a
\* callback or a refresh ends that request with its response and puts no
\* call in flight; the step in which the add-item reply reaches
\* /api/playlist/add ends that request and puts no call in flight, with
\* 200 on success and, on a non-success reply, 500 and the playlist as it
\* was.
C29_NoRetry ==
    [][/\ inflight' # inflight =>
             \/ \E req \in BagToSet(inflight') :
                   inflight' = inflight (+) SetToBag({req})
             \/ \E req \in Pending :
                   /\ inflight' = inflight (-) SetToBag({req})
                   /\ lastResp'.ep = req.kind /\ lastResp'.status # 0
       /\ \A c \in Suspended : \A ok \in BOOLEAN :
             (c.ep = "add" /\ AddFinish(c, ok)) => calls' = calls (-) SetToBag({c})
       /\ calls' # calls =>
             \/ \E c \in BagToSet(calls') : calls' = calls (+) SetToBag({c})
             \/ \E c \in Suspended :
                   /\ calls' = calls (-) SetToBag({c})
                   /\ \/ apiResp' = ApiJson(c.ep, 200, SuccessBody)
                      \/ /\ apiResp' = ApiJson(c.ep, 500,
                                               ErrorBody("Error al añadir canción"))
                         /\ playlists' = playlists]_vars

\* an add has ended on 500 and a refresh on the token endpoint's refusal;
\* nothing is in flight
C29_Witness ==
    /\ apiResp = ApiJson("add", 500, ErrorBody("Error al añadir canción"))
    /\ lastResp.ep = "refresh" /\ lastResp.status = 400
    /\ calls = EmptyBag /\ inflight = EmptyBag

\* ---------------------------------------------------------------------
\* The discovery endpoints and /api/cards/daily side by side, over a Card
\* table that has not been seeded.
\* ---------------------------------------------------------------------

NextValidation ==
    \/ DiscoveryStep(1, Users)
    \/ \E q \in TodayQueries(Users) : DailyBegin(1, q)
    \/ \E c \in Suspended : DailyAssigned(c)
    \/ \E c \in Suspended : DailyHistory(c)
    \/ \E c \in Suspended : DailyPool(c)
    \/ \E c \in Suspended : DailyWiden(c)
    \/ \E c \in Suspended : DailyCreate(c)

SpecValidation == InitDiscovery /\ [][NextValidation]_vars

\* C31: validation failures write nothing.  A record request without
\* userId, cardTitle or trackUri, a mark-as-added request without userId
\* or trackUri and a daily request without userId are answered 400 in the
\* step that receives them, whatever the store holds: the handler reaches
\* no await, so no store call is made, and the store is as it was.
C31_ValidationWritesNothing ==
    [][/\ \A b \in RecordBodies(Users) :
            (/\ b.userId = Absent \/ b.cardTitle = Absent \/ b.trackUri = Absent
             /\ RecordBegin(1, b)) =>
               /\ apiResp' = ApiJson("discovery", 400,
                                     ErrorBody("Faltan datos obligatorios"))
               /\ calls' = calls /\ UNCHANGED storeVars
       /\ \A b \in MarkBodies(Users) :
            (/\ b.userId = Absent \/ b.trackUri = Absent
             /\ MarkBegin(1, b)) =>
               /\ apiResp' = ApiJson("mark", 400,
                                     ErrorBody("Faltan datos obligatorios"))
               /\ calls' = calls /\ UNCHANGED storeVars
       /\ \A q \in TodayQueries(Users) :
            (q.userId = Absent /\ DailyBegin(1, q)) =>
               /\ apiResp' = ApiJson("daily", 400, ErrorBody("Falta userId"))
               /\ calls' = calls /\ UNCHANGED storeVars]_vars

\* a request is refused with 400 while the store holds an entry
C31_Witness ==
    /\ apiResp.status = 400
    /\ apiResp.ep \in {"discovery", "mark", "daily"}
    /\ discoveryLog # {}

\* C32 as stated: /api/playlist/exists removes a stored mapping only when
\* the playlist is no longer upstream: a step of the handler that deletes
\* the user's row finds no upstream playlist of the row's playlistId.
C32_Original ==
    [][\A c \in Suspended :
          (c.ep = "exists" /\ ExistsDelete(c) /\ userPlaylist' # userPlaylist) =>
             ~\E p \in playlists : p.id = c.pid]_vars

\* ---------------------------------------------------------------------
\* The playlist endpoints and the discovery endpoints of one caller side
\* by side, over either database.
\* ---------------------------------------------------------------------

SpecHeal ==
    InitDiscovery /\ [][PlaylistStep(1, {Caller}) \/ DiscoveryStep(1, {Caller})]_vars

\* C33 as stated: the step in which /api/playlist/exists deletes a user's
\* mapping row leaves the DiscoveryLog and DailyCard tables as they were.
C33_Original ==
    [][\A c \in Suspended :
          (c.ep = "exists" /\ ExistsDelete(c) /\ userPlaylist' # userPlaylist) =>
             /\ discoveryLog' = discoveryLog
             /\ dailyCard' = dailyCard]_vars

\* C34 as stated: record and dailyCards work for a user who has no
\* UserPlaylist row.  For such a user the insert of a new (userId,
\* trackUri) stores the entry and answers 200 with it, and the day's first
\* daily call stores its selection and answers 200.
C34_Original ==
    [][\A c \in Suspended :
          RowsOf(userPlaylist, c.user) = {} =>
             /\ (c.ep = "discovery" /\ RecordInsert(c)) =>
                   /\ apiResp'.status = 200
                   /\ \E e \in discoveryLog' \ discoveryLog :
                         e.userId = c.user /\ e.trackUri = c.uri
             /\ (c.ep = "daily" /\ c.pc = "create" /\ DailyCreate(c)) =>
                   /\ apiResp'.status = 200
                   /\ {r.cardId : r \in dailyCard' \ dailyCard} =
                         {k.id : k \in c.cands}]_vars

\* C35 as stated: logout is final with respect to refreshes in flight.
\* Once the user agent has applied the logout response, and until a
\* callback sets it again, the refresh_token cookie stays absent.
C35_Original ==
    [][(/\ lastResp.ep = "logout"
        /\ cookies.refresh_token = Absent
        /\ cookies'.refresh_token # Absent) => lastResp'.ep = "callback"]_vars

\* C36: a callback with error=access_denied is answered before the state
\* is looked at.  Also with a state that is missing or differs from the
\* cookie it is redirected with access_denied, the spotify_state cookie is
\* as it was, and a callback that then brings the cookie's nonce back
\* with a code is taken to the exchange.
C36_DeniedBeforeState ==
    [][\A q \in Query :
         (/\ q.error = "access_denied"
          /\ q.state = Absent \/ q.state # cookies.spotify_state
          /\ CallbackBegin(q)) =>
            /\ IsDeniedRedirect(lastResp')
            /\ lastResp'.setState = NoChange
            /\ cookies'.spotify_state = cookies.spotify_state
            /\ inflight' = inflight
            /\ cookies.spotify_state \in Nonces =>
                  \A code \in Codes :
                     CallbackBranch([code |-> code, state |-> cookies'.spotify_state,
                                     error |-> Absent],
                                    cookies'.spotify_state) = "exchange"]_vars

\* after a denial the nonce of the login is still in the cookie and a
\* callback that brought it back is at the token endpoint
C36_Witness ==
    /\ IsDeniedRedirect(lastResp)
    /\ cookies.spotify_state \in Nonces
    /\ \E req \in Pending : req.kind = "callback" /\ req.state = cookies.spotify_state

\* C37: for requests one at a time the answer of /api/playlist/exists
\* agrees with the store it leaves: with {exists: true} the user has a
\* mapping row, with {exists: false} the user has none.  The search goes
\* on to persist a row exactly when the page it has fetched holds a
\* playlist whose name is "SoundHaven" to the letter, the row it then
\* stores is new, maps the user to that playlist and is answered
\* {exists: true}.
C37_ExistsAgrees ==
    [][\A c \in Suspended : c.ep = "exists" =>
          /\ (calls' = EmptyBag /\ apiResp'.ep = "exists" /\ apiResp'.status = 200) =>
                /\ apiResp'.body.shape = "exists"
                /\ apiResp'.body.exists <=> RowsOf(userPlaylist', c.user) # {}
          /\ (c.pc = "search" /\ ExistsSearch(c, TRUE)) =>
                LET page == PageOf(c.user, c.offset).items IN
                /\ (\E d \in BagToSet(calls') : d.pc = "persist")
                      <=> \E i \in 1..Len(page) : page[i].name = "SoundHaven"
                /\ \A d \in BagToSet(calls') : d.pc = "persist" =>
                      \E i \in 1..Len(page) :
                         page[i].name = "SoundHaven" /\ page[i].id = d.pid
          /\ (c.pc = "persist" /\ ExistsPersist(c)) =>
                /\ apiResp' = ApiJson("exists", 200, ExistsBody(TRUE))
                /\ RowsOf(userPlaylist, c.user) = {}
                /\ \E r \in userPlaylist' :
                      /\ userPlaylist' = userPlaylist \cup {r}
                      /\ r.userId = c.user /\ r.playlistId = c.pid]_vars

\* the answer is {exists: false} and no user has a row, while each user
\* has a playlist named "soundhaven" upstream
C37_Witness ==
    /\ apiResp = ApiJson("exists", 200, ExistsBody(FALSE))
    /\ userPlaylist = {}
    /\ \A u \in Users : \E p \in playlists : p.owner = u /\ p.name = "soundhaven"

\* C38 as stated: the cards returned by the request that generates the
\* day's assignment are the cards persisted as the user's assignments of
\* that day, also when two generating requests overlap.
C38_Original ==
    [][\A c \in Suspended :
          (/\ c.ep = "daily" /\ c.pc = "create"
           /\ DailyCreate(c)
           /\ apiResp'.status = 200) =>
             {k.id : k \in BagToSet(apiResp'.body.cards)} =
                {r.cardId : r \in {d \in dailyCard' :
                                     d.userId = c.user /\ d.date = c.start}}]_vars

\* ---------------------------------------------------------------------
\* /api/playlist/exists for one caller, one request at a time, with the
\* caller making and removing playlists upstream.  The pagination chain
\* is finite and upstream serves it: a page that has been asked for
\* arrives unless its fetch fails first.
\* ---------------------------------------------------------------------

NextSearch ==
    \/ \E a \in AuthHeaders({Caller}) : \E me \in MeReplies(a) : ExistsBegin(1, a, me)
    \/ \E c \in Suspended : \E st \in CheckStatuses(c.pid) : ExistsCheck(c, st)
    \/ \E c \in Suspended : ExistsDelete(c)
    \/ \E c \in Suspended : \E ok \in BOOLEAN : ExistsSearch(c, ok)
    \/ \E c \in Suspended : ExistsPersist(c)
    \/ \E n \in PlaylistNames : UserMakesPlaylist(Caller, n)
    \/ \E p \in playlists : UserRemovesPlaylist(p)

SpecSearch ==
    /\ InitPlaylist
    /\ [][NextSearch]_vars
    /\ WF_vars(\E c \in Suspended : ExistsSearch(c, TRUE))

\* C39: the name search terminates.  A page that arrives either holds a
\* match, and then no further page is fetched: the handler goes on to
\* store the first match of that page; or it holds none and names a next
\* page, and then that page, which lies further on, is the one fetched
\* next; or it holds none and names no next page, and then the request is
\* answered {exists: false}.  Every search leaves its loop.
C39_SearchTerminates ==
    /\ [][\A c \in Suspended :
             (c.ep = "exists" /\ c.pc = "search" /\ ExistsSearch(c, TRUE)) =>
                LET data == PageOf(c.user, c.offset)
                    match == \E i \in 1..Len(data.items) :
                                data.items[i].name = ManagedName
                IN IF match
                   THEN \A d \in BagToSet(calls') :
                           d.pc = "persist" /\ d.offset = c.offset
                   ELSE IF data.next # NoNext
                   THEN \A d \in BagToSet(calls') :
                           /\ d.pc = "search"
                           /\ d.offset = data.next /\ d.offset > c.offset
                   ELSE /\ calls' = EmptyBag
                        /\ apiResp' = ApiJson("exists", 200, ExistsBody(FALSE))]_vars
    /\ (\E c \in Suspended : c.pc = "search") ~> (\A c \in Suspended : c.pc # "search")

\* the search has found its match on a page after the first
C39_Witness ==
    \E c \in Suspended : c.ep = "exists" /\ c.pc = "persist" /\ c.offset > 0
====
